---- MODULE Spec2Model ----
(***************************************************************************)
(* Model of the resilient session client of src/main.py: the response      *)
(* parser (parsear_respuesta_csv), the retry orchestrator                  *)
(* (procesar_consulta) with its lock, its attempts and its cleanup, the    *)
(* conversation exchange (crear_conversacion_y_enviar_mensaje) with its    *)
(* stream, and request_lock for more threads; of the application around    *)
(* it (lifespan, the chat endpoints, the login flow of login_api.py and    *)
(* reload-session); and of the vision variant of app.py and app_fastapi.py *)
(* (groq_vision_extract and _move_nombre_overflow_to_adicional).           *)
(*                                                                         *)
(* A Python str is a sequence of one-character strings; Python's None, in  *)
(* a place that holds a str, is the value None below, which is no str      *)
(* because "None" is not a character.                                      *)
(***************************************************************************)
EXTENDS Integers, Sequences, FiniteSets, TLC

VARIABLES
    \* ---- the session object (ClaudeAPISession) and its environment
    organization_id,   \* self.organization_id: "org" or "None"
    transport,         \* the fake transport in use: "any", "upload_fails"
    request_lock,      \* self.request_lock: TRUE when held
    \* ---- one procesar_consulta call per caller
    pc,                \* where each caller is in procesar_consulta ("fin": it has left)
    intento,           \* the for loop's variable (0 before the first iteration)
    conversation_id,   \* procesar_consulta's local conversation_id
    conv_attempt,      \* intentar_procesamiento's local conversation_id
    respuesta_raw,     \* intentar_procesamiento's respuesta_raw
    documento,         \* the record parsed in the current attempt
    e,                 \* the exception caught in the current attempt
    ultimo_error,      \* procesar_consulta's ultimo_error
    resultado,         \* what the call returned, or the terminal error it raised
    file_uuid,         \* intentar_procesamiento's file_uuid
    borrado,           \* what eliminar_conversacion returned in the attempt under way
    cola,              \* the threads blocked at request_lock, in arrival order
    \* ---- what the transport saw, per call
    uploads,           \* upload requests issued
    backoffs,          \* time.sleep(3) pauses taken
    fallidos,          \* attempts that ended in the except branch
    deletes,           \* DELETE requests issued for conv_attempt's conversation
    files_enviados,    \* the file handle in the attempt's completion request
    creada,            \* TRUE once the attempt's create request was answered 201
    \* ---- the parser applied on its own
    raw,               \* the answer given to parsear_respuesta_csv
    doc,               \* the record it returned (NoDoc before the call)
    \* ---- crear_conversacion_y_enviar_mensaje called on its own
    guion,             \* what the transport answers to this call
    cpc,               \* where the call is: crear, enviar, leyendo, retornado
    salida,            \* the return statement the call left through
    conversacion,      \* its local conversation_id
    pos,               \* stream lines read so far
    texto_completo,    \* its local texto_completo
    retorno,           \* the pair it returned (NoRetorno before that)
    completions,       \* completion requests issued
    \* ---- one request method or login function called on its own
    llamada,           \* the method, its arguments and what the transport answers
    valor,             \* what it returned or raised (NoValor before that)
    \* ---- the application (the FastAPI process) and its environment
    cookie_file,       \* claude_cookies_selenium.json: absent, malformed, or a cookie set
    proceso,           \* "arrancando", "sirviendo", or "caido" when the startup failed
    claude_session,    \* the global claude_session: an index of sesiones, 0 for None
    sesiones,          \* the ClaudeAPISession objects built so far
    login_sessions,    \* the global login_sessions: the emails it has a key for
    chats,             \* the chat requests: where each is and the session it runs on
    ultima,            \* the last endpoint call: what it was given and what it answered
    verificando,       \* the verify-code call between its del and its constructor
    manual,            \* manual_login.py: "abierto" between its open() and its json.dump
    \* ---- one /chat/file request followed on its own
    subida,            \* the request: the upload's file name and what its steps meet
    fpc,               \* where chat_file_endpoint is
    temporal,          \* the temporary file: "ninguno", "existe" or "borrado"
    procesados,        \* the session objects whose procesar_consulta the request called
    respuesta,         \* what the caller received (NoRespuesta before that)
    \* ---- _move_nombre_overflow_to_adicional called on its own (app.py)
    items,             \* the rows of items["datos"], modified in place
    items_antes,       \* the rows as they were when the call was made
    movido,            \* TRUE once the call has returned
    \* ---- groq_vision_extract called on its own (app.py)
    images,            \* the page images, in page order
    respuestas,        \* what the vision service answers to each request
    bi,                \* the loop's index: batches handled so far
    final_doc,         \* its local final_doc
    final_items,       \* the rows of its local final_items["datos"]
    enviados,          \* the images of each request sent, in order
    extraccion         \* what it returned or raised (NoExtraccion before that)

vars == <<organization_id, transport, request_lock, pc, intento, conversation_id,
          conv_attempt, respuesta_raw, documento, e, ultimo_error, resultado,
          file_uuid, borrado, cola, files_enviados, creada,
          uploads, backoffs, fallidos, deletes, raw, doc, guion, cpc, salida,
          conversacion, pos, texto_completo, retorno, completions,
          llamada, valor, cookie_file, proceso, claude_session, sesiones,
          login_sessions, chats, ultima, verificando, manual,
          subida, fpc, temporal, procesados, respuesta,
          items, items_antes, movido,
          images, respuestas, bi, final_doc, final_items, enviados, extraccion>>

sessionVars == <<organization_id, transport, request_lock, pc, intento,
                 conversation_id, conv_attempt, respuesta_raw, documento, e,
                 ultimo_error, resultado, uploads, backoffs, fallidos, deletes,
                 file_uuid, borrado, cola, files_enviados,
                 creada>>

parserVars == <<raw, doc>>

lifecycleVars == <<guion, cpc, salida, conversacion, pos, texto_completo, retorno,
                   completions>>

metodoVars == <<llamada, valor>>

appVars == <<cookie_file, proceso, claude_session, sesiones, login_sessions, chats,
             ultima, verificando, manual>>

archivoVars == <<subida, fpc, temporal, procesados, respuesta>>

overflowVars == <<items, items_antes, movido>>

visionVars == <<images, respuestas, bi, final_doc, final_items, enviados, extraccion>>

----------------------------------------------------------------------------
(* Python strings *)

None == <<"None">>

IsStr(s) == s # None

\* The characters of a str are those of Latin-1 (code points below 256); a
\* character beyond them is outside the alphabet of the model.

\* The characters str.strip() removes and str.isspace() accepts: tab, line
\* feed, vertical tab, form feed, carriage return, the separators U+001C to
\* U+001F, the blank, next line (U+0085) and the no-break space (U+00A0)
Whitespace ==
    {" ", "\t", "\n", "\r", "\f", "", "", "", "", "", "", " "}

\* The characters str.lower() changes: A to Z and the capitals U+00C0 to
\* U+00DE (the sign U+00D7 is none)
UpperCase == <<"A","B","C","D","E","F","G","H","I","J","K","L","M",
               "N","O","P","Q","R","S","T","U","V","W","X","Y","Z",
               "À","Á","Â","Ã","Ä","Å","Æ","Ç","È","É","Ê","Ë","Ì",
               "Í","Î","Ï","Ð","Ñ","Ò","Ó","Ô","Õ","Ö","Ø","Ù","Ú",
               "Û","Ü","Ý","Þ">>

LowerCase == <<"a","b","c","d","e","f","g","h","i","j","k","l","m",
               "n","o","p","q","r","s","t","u","v","w","x","y","z",
               "à","á","â","ã","ä","å","æ","ç","è","é","ê","ë","ì",
               "í","î","ï","ð","ñ","ò","ó","ô","õ","ö","ø","ù","ú",
               "û","ü","ý","þ">>

\* The lower-case character of each character of UpperCase
Minuscula ==
    [ch \in {UpperCase[i] : i \in DOMAIN UpperCase} |->
        LowerCase[CHOOSE i \in DOMAIN UpperCase : UpperCase[i] = ch]]

\* str.lower() on one character
LowerChar(ch) == IF ch \in DOMAIN Minuscula THEN Minuscula[ch] ELSE ch

\* str.lower()
lower(s) == [i \in DOMAIN s |-> LowerChar(s[i])]

RECURSIVE lstrip(_)
lstrip(s) ==
    IF s = <<>> THEN s
    ELSE IF Head(s) \in Whitespace THEN lstrip(Tail(s)) ELSE s

RECURSIVE rstrip(_)
rstrip(s) ==
    IF s = <<>> THEN s
    ELSE IF s[Len(s)] \in Whitespace THEN rstrip(SubSeq(s, 1, Len(s) - 1)) ELSE s

\* str.strip()
strip(s) == rstrip(lstrip(s))

\* str.split(sep): the parts between the separators, "" included
RECURSIVE split(_, _)
split(s, sep) ==
    IF \A i \in DOMAIN s : s[i] # sep THEN <<s>>
    ELSE LET k == CHOOSE i \in DOMAIN s :
                      s[i] = sep /\ \A j \in 1..(i - 1) : s[j] # sep
         IN  <<SubSeq(s, 1, k - 1)>> \o split(SubSeq(s, k + 1, Len(s)), sep)

\* Python truth of an Optional[str]: None and "" are falsy
Truthy(p) == p # None /\ p # <<>>

----------------------------------------------------------------------------
(* Configuration *)

RUC_NETTALCO == <<"2","0","1","0","0","0","6","4","5","7","1">>

MAX_INTENTOS == 5

NULL_TOKEN == <<"n","u","l","l">>

IGV_TRUE_TOKENS ==
    { <<"t","r","u","e">>, <<"y","e","s">>, <<"s","i">>, <<"s">>, <<"1">>,
      <<"v","e","r","d","a","d","e","r","o">> }

N_CAMPOS == 9

----------------------------------------------------------------------------
(* parsear_respuesta_csv *)

\* DocumentoData(): every field at its default
DocumentoVacio ==
    [moneda |-> None, ruc |-> None, proveedor |-> None, codigo_factura |-> None,
     fecha_emision |-> None, forma_pago |-> None, igv |-> FALSE,
     sub_total |-> None, total |-> None]

\* The parts joined again with commas
RECURSIVE Unir(_)
Unir(ps) ==
    IF Len(ps) = 0 THEN <<>>
    ELSE IF Len(ps) = 1 THEN ps[1]
    ELSE ps[1] \o <<",">> \o Unir(Tail(ps))

\* Partes with a slip: split(',', 8), the ninth part keeping the rest of the
\* answer
Partes_MaxSplit(texto) ==
    LET ps == split(strip(texto), ",")
        qs == IF Len(ps) > N_CAMPOS
              THEN SubSeq(ps, 1, N_CAMPOS - 1)
                     \o <<Unir(SubSeq(ps, N_CAMPOS, Len(ps)))>>
              ELSE ps
    IN  [i \in DOMAIN qs |-> strip(qs[i])]

\* partes = [p.strip() for p in raw_response.split(',')]
Partes(texto) ==
    LET ps == split(strip(texto), ",") IN [i \in DOMAIN ps |-> strip(ps[i])]

\* Rellenar with a slip: the missing parts padded with "" instead of None
Rellenar_ConVacios(partes) ==
    IF Len(partes) < N_CAMPOS
    THEN partes \o [i \in 1..(N_CAMPOS - Len(partes)) |-> <<>>]
    ELSE partes

\* partes.extend([None] * (9 - len(partes))) when len(partes) < 9
Rellenar(partes) ==
    IF Len(partes) < N_CAMPOS
    THEN partes \o [i \in 1..(N_CAMPOS - Len(partes)) |-> None]
    ELSE partes

\* NullANone with a slip: the token compared without lower()
NullANone_SinLower(p) == IF Truthy(p) /\ p = NULL_TOKEN THEN None ELSE p

\* None if p and p.lower() == 'null' else p
NullANone(p) == IF Truthy(p) /\ lower(p) = NULL_TOKEN THEN None ELSE p

\* ExcluirRucPropio with a slip: the own tax id is let through
ExcluirRucPropio_SinFiltro(ruc) == ruc

\* ruc = partes[1]; if ruc == RUC_NETTALCO: ruc = None
ExcluirRucPropio(ruc) == IF ruc = RUC_NETTALCO THEN None ELSE ruc

\* IgvValue with a slip: the token compared without lower()
IgvValue_SinLower(p) == IF Truthy(p) THEN p \in IGV_TRUE_TOKENS ELSE FALSE

\* igv_value = False; if partes[6]: igv_value = partes[6].lower() in [...]
IgvValue(p) == IF Truthy(p) THEN lower(p) \in IGV_TRUE_TOKENS ELSE FALSE

\* CompletarTotal with a slip: the tax-inclusion flag not consulted
CompletarTotal_SinIgv(igv_value, sub_total, total) ==
    IF Truthy(sub_total) /\ ~Truthy(total) THEN sub_total ELSE total

\* if not igv_value and sub_total and not total: total = sub_total
CompletarTotal(igv_value, sub_total, total) ==
    IF ~igv_value /\ Truthy(sub_total) /\ ~Truthy(total) THEN sub_total ELSE total

parsear_respuesta_csv(raw_response) ==
    IF ~IsStr(raw_response)
    THEN DocumentoVacio    \* None.strip() raises; the except branch answers
    ELSE LET partes == [i \in DOMAIN Rellenar(Partes(raw_response)) |->
                            NullANone(Rellenar(Partes(raw_response))[i])]
             igv_value == IgvValue(partes[7])
         IN  [moneda |-> partes[1],
              ruc |-> ExcluirRucPropio(partes[2]),
              proveedor |-> partes[3],
              codigo_factura |-> partes[4],
              fecha_emision |-> partes[5],
              forma_pago |-> partes[6],
              igv |-> igv_value,
              sub_total |-> partes[8],
              total |-> CompletarTotal(igv_value, partes[8], partes[9])]

----------------------------------------------------------------------------
(* The transport: what the upstream service may answer *)

NumCallers == 2

Callers == 1..NumCallers

\* conversation_id = None, or the empty string: a value `if conversation_id:`
\* takes for false
SinId == 0

\* The id the service gives to the conversation created in attempt k of caller c:
\* fresh for every create request.
ConvId(c, k) == (c - 1) * MAX_INTENTOS + k

\* What an upload meets: archivo_path can be opened or not; the POST raises
\* (red: "timeout", "conexion") or is answered (red: "ok") with a status and a
\* body, which is a JSON object with file_uuid ("handle"), a JSON object
\* without it ("sin_handle") or no JSON ("no_json")
Subidas ==
    [archivo : {"legible", "ilegible"},
     red : {"ok", "timeout", "conexion"},
     status : {"200", "201", "401", "500"},
     cuerpo : {"handle", "sin_handle", "no_json"}]

Sub200 == [archivo |-> "legible", red |-> "ok", status |-> "200", cuerpo |-> "handle"]

Sub500 == [archivo |-> "legible", red |-> "ok", status |-> "500", cuerpo |-> "no_json"]

SubTimeout == [archivo |-> "legible", red |-> "timeout", status |-> "500", cuerpo |-> "no_json"]

\* The uploads met by the calls of procesar_consulta: every upload fails
\* ("upload_fails"), or each is answered with a handle or fails ("any")
UploadOutcomes ==
    IF transport = "upload_fails" THEN {Sub500, SubTimeout}
    ELSE {Sub200, Sub500, SubTimeout}

\* What a create request meets: it raises ("timeout"), or it is answered
\* 500, or 201 with a JSON object that holds the conversation's uuid ("201")
\* or holds none, or null, or "" ("201_sin_uuid")
CreateAnswers == {"201", "201_sin_uuid", "500", "timeout"}

\* The create requests met by the calls of procesar_consulta: each one meets
\* any of the answers, whatever the attempts before it met
CreateOutcomes == CreateAnswers

\* response.status_code of a create request that was answered
Status201(outcome) == outcome \in {"201", "201_sin_uuid"}

\* file_uuid = None
SinFile == 0

\* The handle the service gives to the file uploaded in attempt k of caller c:
\* fresh for every upload request.
FileId(c, k) == (c - 1) * MAX_INTENTOS + k

\* DELETE answers ("timeout": the request raised)
DeleteOutcomes == {"204", "200", "500", "timeout"}

\* Accumulated stream texts (texto_completo) of a completion answered with 200
TEXTO_A ==
    <<"U","S","D",",","n","u","l","l",",","X",",","F","1",",","D",",","C",",",
      "n","o",",","5",",","n","u","l","l">>

TEXTO_B == <<" ","P","E","N",",","7",",","Y",",","F","2",",","D",",","C",",",
             "S","I",",","1",",","2","\n">>

TextosStream == {<<>>, <<" ">>, TEXTO_A, TEXTO_B}

\* The completion's answer: its status ("timeout": the request or the stream
\* raised) and the text accumulated from the stream up to its end or its failure
SendOutcomes ==
    {[status |-> st, texto |-> t] : st \in {"200", "500", "timeout"}, t \in TextosStream}

\* What GET /api/organizations meets: the request raises (status "timeout",
\* "conexion") or is answered with a status and a body, which is no JSON
\* (json FALSE) or the list orgs of the uuids of its entries ("None" for an
\* entry without uuid)
Organizaciones ==
    [status : {"200", "401", "500", "timeout", "conexion"},
     json : BOOLEAN,
     orgs : {<<>>, <<"org">>, <<"org", "org2">>, <<"org2", "org">>, <<"None", "org">>}]

\* The lookups met when the session of procesar_consulta's calls was built
OrgLookups ==
    {r \in Organizaciones :
        /\ r.json
        /\ r.status \in {"200", "500", "timeout"}
        /\ r.orgs \in {<<>>, <<"org">>}
        /\ r.orgs = <<"org">> => r.status = "200"}

----------------------------------------------------------------------------
(* ClaudeAPISession *)

\* The value that stands for a call that raised to its caller instead of
\* returning
Propagada == -1

\* An organization id that stands for a lookup that raised
OrgPropagada == "raised"

\* Atrapa with a slip: except requests.RequestException
Atrapa_SoloRed(exc) == exc \in {"timeout", "conexion"}

\* except Exception: every exception the try block can raise is caught
\* (FileNotFoundError and the other OSError of open, the exceptions of
\* requests, the ValueError of response.json(), IndexError, AttributeError)
Atrapa(exc) == TRUE

\* The exception the try block of obtener_organization_id raises, "None" if
\* it runs to a return
ExcOrg(resp) ==
    IF resp.status \in {"timeout", "conexion"} THEN resp.status
    ELSE IF resp.status = "200" /\ ~resp.json THEN "JSONDecodeError"
    ELSE "None"

\* obtener_organization_id with a slip: the last entry is taken
obtener_organization_id_Ultimo(resp) ==
    IF ExcOrg(resp) # "None"
    THEN IF Atrapa(ExcOrg(resp)) THEN "None" ELSE OrgPropagada
    ELSE IF resp.status = "200" /\ Len(resp.orgs) > 0
         THEN resp.orgs[Len(resp.orgs)]
         ELSE "None"

\* obtener_organization_id: the first organization's uuid, or None
obtener_organization_id(resp) ==
    IF ExcOrg(resp) # "None"
    THEN IF Atrapa(ExcOrg(resp)) THEN "None" ELSE OrgPropagada
    ELSE IF resp.status = "200" /\ Len(resp.orgs) > 0
         THEN resp.orgs[1]
         ELSE "None"

\* The exception the try block of subir_archivo raises, "None" if it runs to
\* a return: open() fails, the POST raises, response.json() fails on a 200
ExcSubir(outcome) ==
    IF outcome.archivo = "ilegible" THEN "FileNotFoundError"
    ELSE IF outcome.red # "ok" THEN outcome.red
    ELSE IF outcome.status = "200" /\ outcome.cuerpo = "no_json" THEN "JSONDecodeError"
    ELSE "None"

\* subir_archivo with a slip: the handle of the call's first upload is kept
\* and returned again
subir_archivo_Guardado(c, k, outcome) ==
    IF ExcSubir(outcome) # "None"
    THEN IF Atrapa(ExcSubir(outcome)) THEN SinFile ELSE Propagada
    ELSE IF outcome.status = "200" /\ outcome.cuerpo = "handle"
         THEN FileId(c, 1)
         ELSE SinFile

\* subir_archivo: data.get('file_uuid') on 200, None on any other status and
\* on every exception
subir_archivo(c, k, outcome) ==
    IF ExcSubir(outcome) # "None"
    THEN IF Atrapa(ExcSubir(outcome)) THEN SinFile ELSE Propagada
    ELSE IF outcome.status = "200" /\ outcome.cuerpo = "handle"
         THEN FileId(c, k)
         ELSE SinFile

\* eliminar_conversacion: False without an id (no request), True on 204, False
\* on any other status and on an exception; it never raises
eliminar_conversacion(conv, outcome) == IF conv = SinId THEN FALSE ELSE outcome = "204"

\* TrasEliminar with a slip: a failed delete is escalated as an attempt failure
TrasEliminar_Escala(ok) == IF ok THEN "returned" ELSE "except"

\* self.eliminar_conversacion(conversation_id) as a statement: its result is
\* dropped and the return follows
TrasEliminar(ok) == "returned"

\* crear_conversacion_y_enviar_mensaje, the create request: conversation_id
\* is conv_data.get('uuid') on 201, which is None for a body without uuid, and
\* None as at the start of the call otherwise
CrearConversacion(c, k, outcome) == IF outcome = "201" THEN ConvId(c, k) ELSE SinId

\* TrasCrear with a slip: the completion is requested whatever the create said
TrasCrear_SinRetorno(status) == "enviar"

\* if response.status_code != 201: return None, None
TrasCrear(status) == IF Status201(status) THEN "enviar" ELSE "retornado"

\* EnviarMensaje with a slip: the accumulated text is returned untrimmed
EnviarMensaje_SinStrip(out) ==
    IF out.status = "200" /\ out.texto # <<>> THEN out.texto ELSE None

\* crear_conversacion_y_enviar_mensaje, the completion request and its stream:
\* texto_completo.strip() when some text was accumulated, None otherwise
EnviarMensaje(out) ==
    IF out.status = "200" /\ out.texto # <<>> THEN strip(out.texto) ELSE None

\* LockLibre with a slip: the lock is not consulted
LockLibre_SinLock == TRUE

\* with self.request_lock: entered only when the lock is free
LockLibre == ~request_lock

\* FaltaArchivo with a slip: the upload's result is not looked at
FaltaArchivo_Nunca(f) == FALSE

\* if not file_uuid: raise Exception("Error subiendo archivo")
FaltaArchivo(f) == f = SinFile

\* with self.request_lock: leaving the block, by the return (exito) or by the
\* raise, releases the lock; the value is the lock's state afterwards
LiberarLock(exito) == FALSE

\* HayOtroIntento with a slip: off by one, the call gives up one attempt early
HayOtroIntento_UnoMenos(i) == i + 1 < MAX_INTENTOS

\* if intento < MAX_INTENTOS: sleep and go on, else raise the terminal error
HayOtroIntento(i) == i < MAX_INTENTOS

\* NuevoUltimoError with a slip: the first failure is kept
NuevoUltimoError_Primero(previo, exc) == IF previo = "None" THEN exc ELSE previo

\* except Exception as e: ultimo_error = e
NuevoUltimoError(previo, exc) == exc

NoDoc == [sin_documento |-> TRUE]

Pendiente == [estado |-> "pendiente"]

\* raise Exception(f"Fallo despues de {MAX_INTENTOS} intentos. Ultimo error: {ultimo_error}")
ErrorTerminal(err) == [estado |-> "error", intentos |-> MAX_INTENTOS, ultimo_error |-> err]

\* Retorno with a slip: the attempt index counted from 0
Retorno_DesdeCero(d, i) == [estado |-> "retorno", documento |-> d, intentos |-> i - 1]

\* return documento, tiempo_total, intento
Retorno(d, i) == [estado |-> "retorno", documento |-> d, intentos |-> i]

\* eliminar_conversacion was not called in the attempt under way
NoBorrado == [sin_borrado |-> TRUE]

NoRetorno == [sin_retorno |-> TRUE]

NoGuion == [sin_guion |-> TRUE]

\* crear_conversacion_y_enviar_mensaje is not being followed on its own
LifecycleIdle ==
    /\ guion = NoGuion
    /\ cpc = "idle"
    /\ salida = "None"
    /\ conversacion = SinId
    /\ pos = 0
    /\ texto_completo = <<>>
    /\ retorno = NoRetorno
    /\ completions = 0

NoLlamada == [sin_llamada |-> TRUE]

NoValor == [sin_valor |-> TRUE]

\* No method is being called on its own
MetodoIdle ==
    /\ llamada = NoLlamada
    /\ valor = NoValor

\* claude_cookies_selenium.json does not exist
SinArchivo == 0

\* claude_cookies_selenium.json exists and json.load or the loop of
\* cargar_cookies fails on it: it holds no JSON list of cookies, as when it is
\* empty (open(..., "w") has truncated it and nothing is written yet)
Malformado == -1

\* The chat requests followed
NumChats == 2

Chats == 1..NumChats

NoOp == [op |-> "ninguna"]

\* No verify-code call is between its del and its constructor
NoVerificacion == [email |-> "None"]

\* A chat request not made yet: where it is, and the session object whose
\* procesar_consulta it called (0 before it has called one)
ChatIdle == [estado |-> "idle", self |-> 0]

\* The application is not being followed
AppIdle ==
    /\ cookie_file = SinArchivo
    /\ proceso = "sirviendo"
    /\ claude_session = 0
    /\ sesiones = <<>>
    /\ login_sessions = {}
    /\ chats = [r \in Chats |-> ChatIdle]
    /\ ultima = NoOp
    /\ verificando = NoVerificacion
    /\ manual = "no"

\* A /chat/file request not made: no file name, nothing its steps meet
NoSubida == [filename |-> None]

NoRespuesta == [status |-> 0]

\* No /chat/file request is being followed
ArchivoIdle ==
    /\ subida = NoSubida
    /\ fpc = "idle"
    /\ temporal = "ninguno"
    /\ procesados = <<>>
    /\ respuesta = NoRespuesta

\* _move_nombre_overflow_to_adicional is not being followed
OverflowIdle ==
    /\ items = <<>>
    /\ items_antes = <<>>
    /\ movido = FALSE

NoExtraccion == [estado |-> "pendiente"]

\* final_doc as groq_vision_extract starts it: every header field None
DocInicial ==
    [ruc |-> None, empresa |-> None, codigo_factura |-> None,
     fecha_emision |-> None, moneda |-> None, vigencia |-> None,
     formato_pago |-> None, igv |-> None]

\* groq_vision_extract is not being followed
VisionIdle ==
    /\ images = <<>>
    /\ respuestas = <<>>
    /\ bi = 0
    /\ final_doc = DocInicial
    /\ final_items = <<>>
    /\ enviados = <<>>
    /\ extraccion = NoExtraccion

\* No procesar_consulta call is being followed
SessionIdle ==
    /\ organization_id = "org"
    /\ transport = "any"
    /\ request_lock = FALSE
    /\ pc = [c \in Callers |-> "idle"]
    /\ intento = [c \in Callers |-> 0]
    /\ conversation_id = [c \in Callers |-> SinId]
    /\ conv_attempt = [c \in Callers |-> SinId]
    /\ respuesta_raw = [c \in Callers |-> None]
    /\ documento = [c \in Callers |-> NoDoc]
    /\ e = [c \in Callers |-> "None"]
    /\ ultimo_error = [c \in Callers |-> "None"]
    /\ resultado = [c \in Callers |-> Pendiente]
    /\ uploads = [c \in Callers |-> 0]
    /\ backoffs = [c \in Callers |-> 0]
    /\ fallidos = [c \in Callers |-> 0]
    /\ deletes = [c \in Callers |-> 0]
    /\ file_uuid = [c \in Callers |-> SinFile]
    /\ borrado = NoBorrado
    /\ cola = <<>>
    /\ files_enviados = [c \in Callers |-> SinFile]
    /\ creada = [c \in Callers |-> FALSE]

Init ==
    /\ \E resp \in OrgLookups : organization_id = obtener_organization_id(resp)
    /\ transport \in {"any", "upload_fails"}
    /\ request_lock = FALSE
    /\ pc = [c \in Callers |-> "idle"]
    /\ intento = [c \in Callers |-> 0]
    /\ conversation_id = [c \in Callers |-> SinId]
    /\ conv_attempt = [c \in Callers |-> SinId]
    /\ respuesta_raw = [c \in Callers |-> None]
    /\ documento = [c \in Callers |-> NoDoc]
    /\ e = [c \in Callers |-> "None"]
    /\ ultimo_error = [c \in Callers |-> "None"]
    /\ resultado = [c \in Callers |-> Pendiente]
    /\ uploads = [c \in Callers |-> 0]
    /\ backoffs = [c \in Callers |-> 0]
    /\ fallidos = [c \in Callers |-> 0]
    /\ deletes = [c \in Callers |-> 0]
    /\ file_uuid = [c \in Callers |-> SinFile]
    /\ borrado = NoBorrado
    /\ cola = <<>>
    /\ files_enviados = [c \in Callers |-> SinFile]
    /\ creada = [c \in Callers |-> FALSE]
    /\ raw = None
    /\ doc = NoDoc
    /\ LifecycleIdle
    /\ MetodoIdle
    /\ AppIdle
    /\ ArchivoIdle
    /\ OverflowIdle
    /\ VisionIdle

\* A caller invokes procesar_consulta, for the first time or again once a
\* call of its own has ended, and reaches `with self.request_lock`; what is
\* recorded of a call starts afresh
Call(c) ==
    /\ pc[c] \in {"idle", "fin"}
    /\ pc' = [pc EXCEPT ![c] = "waiting"]
    /\ resultado' = [resultado EXCEPT ![c] = Pendiente]
    /\ uploads' = [uploads EXCEPT ![c] = 0]
    /\ backoffs' = [backoffs EXCEPT ![c] = 0]
    /\ fallidos' = [fallidos EXCEPT ![c] = 0]
    /\ UNCHANGED <<organization_id, transport, request_lock, intento, conversation_id,
                   conv_attempt, respuesta_raw, documento, e, ultimo_error,
                   deletes, raw, doc, lifecycleVars,
                   file_uuid, borrado, cola, files_enviados, creada,
                   metodoVars, appVars, archivoVars, overflowVars, visionVars>>

\* The lock is taken; ultimo_error = None
Acquire(c) ==
    /\ pc[c] = "waiting"
    /\ LockLibre
    /\ request_lock' = TRUE
    /\ ultimo_error' = [ultimo_error EXCEPT ![c] = "None"]
    /\ pc' = [pc EXCEPT ![c] = "loop"]
    /\ UNCHANGED <<organization_id, transport, intento, conversation_id, conv_attempt,
                   respuesta_raw, documento, e, resultado, uploads, backoffs, fallidos,
                   deletes, raw, doc, lifecycleVars,
                   file_uuid, borrado, cola, files_enviados, creada,
                   metodoVars, appVars, archivoVars, overflowVars, visionVars>>

\* for intento in range(1, MAX_INTENTOS + 1): conversation_id = None, and
\* intentar_procesamiento starts with its own conversation_id = None
ForIter(c) ==
    /\ pc[c] = "loop"
    /\ file_uuid' = [file_uuid EXCEPT ![c] = SinFile]
    /\ files_enviados' = [files_enviados EXCEPT ![c] = SinFile]
    /\ creada' = [creada EXCEPT ![c] = FALSE]
    /\ borrado' = NoBorrado
    /\ intento[c] < MAX_INTENTOS
    /\ intento' = [intento EXCEPT ![c] = @ + 1]
    /\ conversation_id' = [conversation_id EXCEPT ![c] = SinId]
    /\ conv_attempt' = [conv_attempt EXCEPT ![c] = SinId]
    /\ respuesta_raw' = [respuesta_raw EXCEPT ![c] = None]
    /\ documento' = [documento EXCEPT ![c] = NoDoc]
    /\ e' = [e EXCEPT ![c] = "None"]
    /\ deletes' = [deletes EXCEPT ![c] = 0]
    /\ pc' = [pc EXCEPT ![c] = "upload"]
    /\ UNCHANGED <<organization_id, transport, request_lock, ultimo_error, resultado,
                   uploads, backoffs, fallidos, raw, doc, lifecycleVars, cola,
                   metodoVars, appVars, archivoVars, overflowVars, visionVars>>

\* file_uuid = self.subir_archivo(archivo_path); if not file_uuid: raise
Upload(c) ==
    /\ pc[c] = "upload"
    /\ \E outcome \in UploadOutcomes :
         /\ uploads' = [uploads EXCEPT ![c] = @ + 1]
         /\ file_uuid' = [file_uuid EXCEPT ![c] = subir_archivo(c, intento[c], outcome)]
         /\ IF FaltaArchivo(subir_archivo(c, intento[c], outcome))
            THEN /\ e' = [e EXCEPT ![c] = "Error subiendo archivo"]
                 /\ pc' = [pc EXCEPT ![c] = "except"]
            ELSE /\ e' = e
                 /\ pc' = [pc EXCEPT ![c] = "create"]
    /\ UNCHANGED <<organization_id, transport, request_lock, intento, conversation_id,
                   conv_attempt, respuesta_raw, documento, ultimo_error, resultado,
                   backoffs, fallidos, deletes, raw, doc, lifecycleVars,
                   borrado, cola, files_enviados, creada,
                   metodoVars, appVars, archivoVars, overflowVars, visionVars>>

\* The create request of crear_conversacion_y_enviar_mensaje: unless it is
\* answered 201 the call returns (None, None) and intentar_procesamiento
\* raises; after a 201 the completion is requested, with or without an id
Create(c) ==
    /\ pc[c] = "create"
    /\ \E outcome \in CreateOutcomes :
         /\ conv_attempt' = [conv_attempt EXCEPT ![c] = CrearConversacion(c, intento[c], outcome)]
         /\ creada' = [creada EXCEPT ![c] = Status201(outcome)]
         /\ IF TrasCrear(outcome) = "retornado"
            THEN /\ e' = [e EXCEPT ![c] = "Sin respuesta valida"]
                 /\ pc' = [pc EXCEPT ![c] = "except"]
            ELSE /\ e' = e
                 /\ pc' = [pc EXCEPT ![c] = "send"]
    /\ UNCHANGED <<organization_id, transport, request_lock, intento, conversation_id,
                   respuesta_raw, documento, ultimo_error, resultado, uploads,
                   backoffs, fallidos, deletes, raw, doc, lifecycleVars,
                   file_uuid, borrado, cola, files_enviados,
                   metodoVars, appVars, archivoVars, overflowVars, visionVars>>

\* The completion request and the stream; if not respuesta_raw: raise
Send(c) ==
    /\ pc[c] = "send"
    /\ files_enviados' = [files_enviados EXCEPT ![c] = file_uuid[c]]
    /\ \E out \in SendOutcomes :
         /\ respuesta_raw' = [respuesta_raw EXCEPT ![c] = EnviarMensaje(out)]
         /\ IF ~Truthy(EnviarMensaje(out))
            THEN /\ e' = [e EXCEPT ![c] = "Sin respuesta valida"]
                 /\ pc' = [pc EXCEPT ![c] = "except"]
            ELSE /\ e' = e
                 /\ pc' = [pc EXCEPT ![c] = "parse"]
    /\ UNCHANGED <<organization_id, transport, request_lock, intento, conversation_id,
                   conv_attempt, documento, ultimo_error, resultado, uploads,
                   backoffs, fallidos, deletes, raw, doc, lifecycleVars,
                   file_uuid, borrado, cola, creada,
                   metodoVars, appVars, archivoVars, overflowVars, visionVars>>

\* documento = self.parsear_respuesta_csv(respuesta_raw); return conversation_id,
\* documento: procesar_consulta's conversation_id is assigned only here
Parse(c) ==
    /\ pc[c] = "parse"
    /\ documento' = [documento EXCEPT ![c] = parsear_respuesta_csv(respuesta_raw[c])]
    /\ conversation_id' = [conversation_id EXCEPT ![c] = conv_attempt[c]]
    /\ pc' = [pc EXCEPT ![c] = "exito"]
    /\ UNCHANGED <<organization_id, transport, request_lock, intento, conv_attempt,
                   respuesta_raw, e, ultimo_error, resultado, uploads, backoffs,
                   fallidos, deletes, raw, doc, lifecycleVars,
                   file_uuid, borrado, cola, files_enviados, creada,
                   metodoVars, appVars, archivoVars, overflowVars, visionVars>>

\* if conversation_id: self.eliminar_conversacion(conversation_id): the DELETE
\* requests issued so far for the conversation of this attempt. Without an id
\* eliminar_conversacion returns before any request.
DeletesTras(c) ==
    IF conversation_id[c] # SinId /\ conversation_id[c] = conv_attempt[c]
    THEN deletes[c] + 1
    ELSE deletes[c]

\* The success path: the conversation is deleted, whatever the DELETE answers
\* the result of eliminar_conversacion is dropped, then return documento,
\* tiempo_total, intento: the value is built inside the with block
Exito(c) ==
    /\ pc[c] = "exito"
    /\ deletes' = [deletes EXCEPT ![c] = DeletesTras(c)]
    /\ \E outcome \in DeleteOutcomes :
         LET ok == eliminar_conversacion(conversation_id[c], outcome) IN
           /\ borrado' = IF conversation_id[c] = SinId
                         THEN borrado
                         ELSE [caller |-> c, ok |-> ok]
           /\ pc' = [pc EXCEPT ![c] =
                        IF conversation_id[c] = SinId THEN "returned" ELSE TrasEliminar(ok)]
           /\ IF conversation_id[c] = SinId \/ TrasEliminar(ok) = "returned"
              THEN /\ resultado' = [resultado EXCEPT ![c] = Retorno(documento[c], intento[c])]
                   /\ e' = e
              ELSE /\ e' = [e EXCEPT ![c] = "Error eliminando"]
                   /\ UNCHANGED resultado
    /\ UNCHANGED <<organization_id, transport, request_lock, intento, conversation_id,
                   conv_attempt,
                   respuesta_raw, documento, ultimo_error, uploads, backoffs,
                   fallidos, raw, doc, lifecycleVars, file_uuid, cola, files_enviados, creada,
                   metodoVars, appVars, archivoVars, overflowVars, visionVars>>

\* except Exception as e: ultimo_error = e; delete the conversation if
\* conversation_id is set; then either go on to the backoff or raise the
\* terminal error, which is built inside the with block
Except(c) ==
    /\ pc[c] = "except"
    /\ ultimo_error' = [ultimo_error EXCEPT ![c] = NuevoUltimoError(@, e[c])]
    /\ fallidos' = [fallidos EXCEPT ![c] = @ + 1]
    /\ deletes' = [deletes EXCEPT ![c] = DeletesTras(c)]
    /\ IF HayOtroIntento(intento[c])
       THEN /\ pc' = [pc EXCEPT ![c] = "backoff"]
            /\ UNCHANGED resultado
       ELSE /\ pc' = [pc EXCEPT ![c] = "raised"]
            /\ resultado' = [resultado EXCEPT ![c] = ErrorTerminal(ultimo_error'[c])]
    /\ UNCHANGED <<organization_id, transport, request_lock, intento, conversation_id,
                   conv_attempt,
                   respuesta_raw, documento, e, uploads, backoffs, raw, doc, lifecycleVars,
                   file_uuid, borrado, cola, files_enviados, creada,
                   metodoVars, appVars, archivoVars, overflowVars, visionVars>>

\* time.sleep(3) before the next attempt
Backoff(c) ==
    /\ pc[c] = "backoff"
    /\ backoffs' = [backoffs EXCEPT ![c] = @ + 1]
    /\ pc' = [pc EXCEPT ![c] = "loop"]
    /\ UNCHANGED <<organization_id, transport, request_lock, intento, conversation_id,
                   conv_attempt, respuesta_raw, documento, e, ultimo_error, resultado,
                   uploads, fallidos, deletes, raw, doc, lifecycleVars,
                   file_uuid, borrado, cola, files_enviados, creada,
                   metodoVars, appVars, archivoVars, overflowVars, visionVars>>

\* `with self.request_lock:` is left, by the return or by the raise: the lock
\* is released and the call is over, its frame and the locals in it are gone;
\* what stays is what the caller received and what the transport has seen
Liberar(c) ==
    /\ pc[c] \in {"returned", "raised"}
    /\ request_lock' = LiberarLock(pc[c] = "returned")
    /\ pc' = [pc EXCEPT ![c] = "fin"]
    /\ intento' = [intento EXCEPT ![c] = 0]
    /\ conversation_id' = [conversation_id EXCEPT ![c] = SinId]
    /\ conv_attempt' = [conv_attempt EXCEPT ![c] = SinId]
    /\ respuesta_raw' = [respuesta_raw EXCEPT ![c] = None]
    /\ documento' = [documento EXCEPT ![c] = NoDoc]
    /\ e' = [e EXCEPT ![c] = "None"]
    /\ ultimo_error' = [ultimo_error EXCEPT ![c] = "None"]
    /\ file_uuid' = [file_uuid EXCEPT ![c] = SinFile]
    /\ files_enviados' = [files_enviados EXCEPT ![c] = SinFile]
    /\ creada' = [creada EXCEPT ![c] = FALSE]
    /\ deletes' = [deletes EXCEPT ![c] = 0]
    /\ borrado' = NoBorrado
    /\ UNCHANGED <<organization_id, transport, resultado, uploads, backoffs, fallidos,
                   raw, doc, lifecycleVars, cola,
                   metodoVars, appVars, archivoVars, overflowVars, visionVars>>

Next ==
    \E c \in Callers :
        \/ Call(c)
        \/ Acquire(c)
        \/ ForIter(c)
        \/ Upload(c)
        \/ Create(c)
        \/ Send(c)
        \/ Parse(c)
        \/ Exito(c)
        \/ Except(c)
        \/ Backoff(c)
        \/ Liberar(c)

Spec == Init /\ [][Next]_vars

\* The non-empty response texts a completion can give, each with the record
\* the parser returns for it
RegistroDe ==
    [t \in {EnviarMensaje(out) : out \in SendOutcomes} \ {None, <<>>} |->
        parsear_respuesta_csv(t)]

\* The step Parse(c) with the record looked up in RegistroDe, which holds
\* parsear_respuesta_csv of every text that reaches the parser: the same step,
\* in the form in which its enabledness is evaluated
ParseTabulado(c) ==
    /\ pc[c] = "parse"
    /\ documento' = [documento EXCEPT ![c] = RegistroDe[respuesta_raw[c]]]
    /\ conversation_id' = [conversation_id EXCEPT ![c] = conv_attempt[c]]
    /\ pc' = [pc EXCEPT ![c] = "exito"]
    /\ UNCHANGED <<organization_id, transport, request_lock, intento, conv_attempt,
                   respuesta_raw, e, ultimo_error, resultado, uploads, backoffs,
                   fallidos, deletes, raw, doc, lifecycleVars,
                   file_uuid, borrado, cola, files_enviados, creada,
                   metodoVars, appVars, archivoVars, overflowVars, visionVars>>

\* The steps of a call once it has been made: the thread runs, the lock is
\* handed to a thread blocked on it when it is free, and every request returns
\* or times out (timeout=30, 60, TIMEOUT_RESPUESTA, 10)
Paso(c) ==
    \/ Acquire(c)
    \/ ForIter(c)
    \/ Upload(c)
    \/ Create(c)
    \/ Send(c)
    \/ ParseTabulado(c)
    \/ Exito(c)
    \/ Except(c)
    \/ Backoff(c)
    \/ Liberar(c)

\* procesar_consulta with threads that keep running: a step of a call that
\* stays possible is taken. threading.Lock promises no order among the threads
\* blocked on it, so a blocked thread is owed the lock only if the lock stays
\* free; nobody is obliged to call
FairSpec == Spec /\ \A c \in Callers : WF_vars(Paso(c))

----------------------------------------------------------------------------
(* The parser applied on its own to bounded answers *)

MONEDAS ==
    { <<"S","O","L","E","S">>,
      <<" ","n","u","l","l">> }

RUCS ==
    { <<"2","0","1","0","0","0","6","4","5","7","1">>,
      <<" ","2","0","1","0","0","0","6","4","5","7","1"," ">>,
      <<"2","0","1","9","0","1","4","3","8","0","6">>,
      <<"N","U","L","L">> }

IGVS ==
    { <<"T","r","u","e">>,
      <<"t","r","u","e">>,
      <<"Y","E","S">>,
      <<"S","i">>,
      <<"s">>,
      <<"1">>,
      <<"V","e","r","d","a","d","e","r","o">>,
      <<" ","T","R","U","E"," ">>,
      <<"F","a","l","s","e">>,
      <<"n","o">>,
      <<"0">>,
      <<"n","u","l","l">>,
      <<>>,
      <<"t","r","u">>,
      <<"s","i","i">>,
      <<"v","e","r","d","a","d","e","r","a">> }

SUB_TOTALES ==
    { <<"1","2","0",".","0","0">>,
      <<>>,
      <<"n","u","l","l">> }

TOTALES ==
    { <<"1","4","1",".","6","0">>,
      <<"n","u","l","l">>,
      <<>>,
      <<" ","N","u","l","l"," ">> }

PROVEEDOR == <<"X"," ","S",".","A",".","C",".">>

CODIGO == <<"F","0","0","1","-","0","0","1">>

\* Document codes: one written out, one the null token in mixed case
CODIGOS == {CODIGO, <<"n","U","l","L">>}

FECHA == <<"1","0","/","0","1","/","2","0","2","6">>

FORMA_PAGO == <<"C","r","e","d","i","t","o">>

SOBRANTE == <<"x">>

\* The answers have up to MaxPartes comma-separated parts
MaxPartes == 10

\* The values tried at position i of an answer
Pool(i) ==
    CASE i = 1 -> MONEDAS
      [] i = 2 -> RUCS
      [] i = 3 -> {PROVEEDOR}
      [] i = 4 -> CODIGOS
      [] i = 5 -> {FECHA}
      [] i = 6 -> {FORMA_PAGO}
      [] i = 7 -> IGVS
      [] i = 8 -> SUB_TOTALES
      [] i = 9 -> TOTALES
      [] OTHER -> {SOBRANTE}

\* The answers with exactly n parts
RECURSIVE Respuestas(_)
Respuestas(n) ==
    IF n = 1 THEN Pool(1)
    ELSE {s \o <<",">> \o f : s \in Respuestas(n - 1), f \in Pool(n)}

\* A supplier name written with a comma in it
PROVEEDOR_CON_COMA == <<"X",","," ","S",".","A",".">>

\* The nine values of an answer in order, the supplier's name holding a comma
ConComa ==
    {Unir(<<m, r, PROVEEDOR_CON_COMA, c, FECHA, FORMA_PAGO, i, st, t>>) :
        m \in MONEDAS, r \in RUCS, c \in CODIGOS, i \in IGVS,
        st \in SUB_TOTALES, t \in TOTALES}

\* Answers with a carriage return, a form feed, the other characters strip()
\* removes, and capitals beyond Z
ConLatin1 ==
    {
      <<"S","O","L","E","S",",","2","0","1","0","0","0","6","4","5","7","1",
        "\r",",","X">>,
      <<"","S","O","L","E","S","",","," ","N","U","L","L","",",","X",",",
        "F",",","D",",","C",",","S","Í",",","1",",","","2","\r","\n">>,
      <<"","N","Ú","L","L",",","7",",","É","Ñ",",","F",",","D",",","C",",",
        "S","I","\f",",","",","," ">>,
      <<"n","u","l","l","\r",",","N","u","L","l","",",","X",",","F",",",
        "D",",","C",",","T","R","U","E","",",","5",",","\f","\r">> }

Entradas ==
    {None} \cup UNION {Respuestas(n) : n \in 1..MaxPartes} \cup ConComa \cup ConLatin1

ParserInit ==
    /\ raw \in Entradas
    /\ doc = NoDoc
    /\ organization_id = "None"
    /\ transport = "any"
    /\ request_lock = FALSE
    /\ pc = [c \in Callers |-> "idle"]
    /\ intento = [c \in Callers |-> 0]
    /\ conversation_id = [c \in Callers |-> SinId]
    /\ conv_attempt = [c \in Callers |-> SinId]
    /\ respuesta_raw = [c \in Callers |-> None]
    /\ documento = [c \in Callers |-> NoDoc]
    /\ e = [c \in Callers |-> "None"]
    /\ ultimo_error = [c \in Callers |-> "None"]
    /\ resultado = [c \in Callers |-> Pendiente]
    /\ uploads = [c \in Callers |-> 0]
    /\ backoffs = [c \in Callers |-> 0]
    /\ fallidos = [c \in Callers |-> 0]
    /\ deletes = [c \in Callers |-> 0]
    /\ file_uuid = [c \in Callers |-> SinFile]
    /\ borrado = NoBorrado
    /\ cola = <<>>
    /\ files_enviados = [c \in Callers |-> SinFile]
    /\ creada = [c \in Callers |-> FALSE]
    /\ LifecycleIdle
    /\ MetodoIdle
    /\ AppIdle
    /\ ArchivoIdle
    /\ OverflowIdle
    /\ VisionIdle

\* doc = session.parsear_respuesta_csv(raw)
Parsear ==
    /\ doc = NoDoc
    /\ doc' = parsear_respuesta_csv(raw)
    /\ UNCHANGED <<raw, sessionVars, lifecycleVars,
                   metodoVars, appVars, archivoVars, overflowVars, visionVars>>

ParserNext == Parsear

ParserSpec == ParserInit /\ [][ParserNext]_vars

----------------------------------------------------------------------------
(* crear_conversacion_y_enviar_mensaje followed request by request and line  *)
(* by line, against a scripted transport                                     *)

\* The stream has up to MaxLineas lines
MaxLineas == 4

\* Text fragments of text_delta events
FRAGMENTOS == {<<"a">>, <<" ","b">>}

\* The lines response.iter_lines() yields, by what the loop body does with
\* them; a line is of the first class below that describes it:
\*   no_data           a blank line, or one not starting with data: (event: ping)
\*   no_utf8           bytes that are no UTF-8 text, with or without data: in
\*                     front: line.decode('utf-8') raises UnicodeDecodeError,
\*                     outside the inner try
\*   json_invalido     data: followed by something json.loads rejects with
\*                     json.JSONDecodeError, or by nothing
\*   json_desborda     data: followed by a payload, no message_stop and no
\*                     text_delta event, on which json.loads raises something
\*                     else, which the inner except does not catch:
\*                     RecursionError on brackets nested deeper than the
\*                     interpreter's recursion limit, ValueError on an integer
\*                     of more digits than sys.get_int_max_str_digits() (4300,
\*                     Python 3.11 on)
\*   no_objeto         data: followed by JSON that is no object (null, true, 5,
\*                     NaN, "x", [1]): data.get raises AttributeError, which
\*                     the inner except does not catch
\*   otro_tipo         data: {"type": "message_start"}, or any other type
\*   delta_otro        data: {"type": "content_block_delta", "delta": {"type":
\*                     "input_json_delta"}}, or one with no delta, or a
\*                     text_delta with no text
\*   evento_malformado a content_block_delta whose delta is no object (null,
\*                     "x", []: delta.get raises AttributeError) or whose
\*                     text_delta carries a text that is no string (+= raises
\*                     TypeError), or a message_stop or text_delta event, valid
\*                     JSON, with a further member on which json.loads raises
\*                     as for json_desborda
\*   text_delta        data: {"type": "content_block_delta", "delta": {"type":
\*                     "text_delta", "text": ...}}
\*   message_stop      data: {"type": "message_stop"}
Lineas ==
    {[clase |-> k, text |-> <<>>] :
        k \in {"no_data", "no_utf8", "json_invalido", "json_desborda", "no_objeto",
               "otro_tipo", "delta_otro", "evento_malformado", "message_stop"}}
    \cup {[clase |-> "text_delta", text |-> t] : t \in FRAGMENTOS}

Streams == UNION {[1..n -> Lineas] : n \in 0..MaxLineas}

\* How the stream ends after its lines: the iterator is exhausted, or it raises
\* requests.exceptions.Timeout, or another exception (the connection dropped);
\* which of them is met when the last line has been read
Fines == {"eof", "timeout", "drop"}

\* What the create request meets: CreateAnswers, and an answer 200
EstadosCrear == CreateAnswers \cup {"200"}

\* The create requests answered 201
Creadas == {st \in EstadosCrear : Status201(st)}

\* Status of the completion request
EstadosEnviar == {"200", "201", "500", "timeout"}

\* The scripts: what is never requested is left at a fixed value
Guiones ==
    {[crear |-> st, enviar |-> "200", lineas |-> <<>>] :
        st \in EstadosCrear \ Creadas}
    \cup {[crear |-> cr, enviar |-> st, lineas |-> <<>>] :
        cr \in Creadas, st \in EstadosEnviar \ {"200"}}
    \cup {[crear |-> cr, enviar |-> "200", lineas |-> ls] :
        cr \in Creadas, ls \in Streams}

\* The pair crear_conversacion_y_enviar_mensaje returns
Devuelve(conv, texto) == [conversation_id |-> conv, texto |-> texto]

\* Acumular with a slip: the fragment put in front of the accumulated text
Acumular_AlFrente(texto, linea) ==
    IF linea.clase = "text_delta" THEN linea.text \o texto ELSE texto

\* texto_completo += delta.get('text', '') for a text_delta, nothing otherwise
Acumular(texto, linea) ==
    IF linea.clase = "text_delta" THEN texto \o linea.text ELSE texto

\* The loop body raises something other than json.JSONDecodeError, or raises
\* outside the inner try
Interrumpe(linea) ==
    linea.clase \in {"no_utf8", "json_desborda", "no_objeto", "evento_malformado"}

\* After the loop: texto_completo.strip() if texto_completo, else None
RetornoNormal(conv, texto) ==
    Devuelve(conv, EnviarMensaje([status |-> "200", texto |-> texto]))

\* RetornoExcepcion with a slip: the accumulated text returned as after the loop
RetornoExcepcion_ConTexto(conv, texto) == RetornoNormal(conv, texto)

\* except requests.exceptions.Timeout / except Exception: return conversation_id, None
RetornoExcepcion(conv, texto) == Devuelve(conv, None)

\* The for loop over response.iter_lines() as a function of the lines: the
\* text accumulated when the loop is left
RECURSIVE TextoAcumulado(_, _)
TextoAcumulado(texto, lineas) ==
    IF lineas = <<>> \/ Interrumpe(Head(lineas)) \/ Head(lineas).clase = "message_stop"
    THEN texto
    ELSE TextoAcumulado(Acumular(texto, Head(lineas)), Tail(lineas))

LifecycleInit ==
    /\ guion \in Guiones
    /\ cpc = "crear"
    /\ salida = "None"
    /\ conversacion = SinId
    /\ pos = 0
    /\ texto_completo = <<>>
    /\ retorno = NoRetorno
    /\ completions = 0
    /\ SessionIdle
    /\ raw = None
    /\ doc = NoDoc
    /\ MetodoIdle
    /\ AppIdle
    /\ ArchivoIdle
    /\ OverflowIdle
    /\ VisionIdle

\* The create request: conversation_id = conv_data.get('uuid') on 201,
\* return None, None otherwise; a raising request returns conversation_id, None
CrearReq ==
    /\ cpc = "crear"
    /\ conversacion' = CrearConversacion(1, 1, guion.crear)
    /\ cpc' = TrasCrear(guion.crear)
    /\ IF TrasCrear(guion.crear) = "retornado"
       THEN /\ salida' = IF guion.crear = "timeout" THEN "timeout" ELSE "no201"
            /\ retorno' = IF guion.crear = "timeout"
                          THEN RetornoExcepcion(SinId, <<>>)
                          ELSE Devuelve(SinId, None)
       ELSE UNCHANGED <<salida, retorno>>
    /\ UNCHANGED <<guion, pos, texto_completo, completions, parserVars, sessionVars,
                   metodoVars, appVars, archivoVars, overflowVars, visionVars>>

\* The completion request: return conversation_id, None unless it answers 200
EnviarReq ==
    /\ cpc = "enviar"
    /\ completions' = completions + 1
    /\ IF guion.enviar = "200"
       THEN /\ cpc' = "leyendo"
            /\ UNCHANGED <<salida, retorno>>
       ELSE /\ cpc' = "retornado"
            /\ salida' = IF guion.enviar = "timeout" THEN "timeout" ELSE "no200"
            /\ retorno' = IF guion.enviar = "timeout"
                          THEN RetornoExcepcion(conversacion, <<>>)
                          ELSE Devuelve(conversacion, None)
    /\ UNCHANGED <<guion, conversacion, pos, texto_completo, parserVars, sessionVars,
                   metodoVars, appVars, archivoVars, overflowVars, visionVars>>

\* One turn of the for loop: the body raises, or breaks on message_stop, or
\* goes on with the text accumulated so far
LeerLinea ==
    /\ cpc = "leyendo"
    /\ pos < Len(guion.lineas)
    /\ pos' = pos + 1
    /\ LET linea == guion.lineas[pos + 1] IN
         IF Interrumpe(linea)
         THEN /\ cpc' = "retornado"
              /\ salida' = "excepcion"
              /\ retorno' = RetornoExcepcion(conversacion, texto_completo)
              /\ UNCHANGED texto_completo
         ELSE IF linea.clase = "message_stop"
         THEN /\ cpc' = "retornado"
              /\ salida' = "stop"
              /\ retorno' = RetornoNormal(conversacion, texto_completo)
              /\ UNCHANGED texto_completo
         ELSE /\ texto_completo' = Acumular(texto_completo, linea)
              /\ UNCHANGED <<cpc, salida, retorno>>
    /\ UNCHANGED <<guion, conversacion, completions, parserVars, sessionVars,
                   metodoVars, appVars, archivoVars, overflowVars, visionVars>>

\* The iterator has no more lines: the loop ends, or iter_lines raises
FinStream ==
    /\ cpc = "leyendo"
    /\ pos = Len(guion.lineas)
    /\ cpc' = "retornado"
    /\ \E fin \in Fines :
         /\ salida' = fin
         /\ retorno' = IF fin = "eof"
                       THEN RetornoNormal(conversacion, texto_completo)
                       ELSE RetornoExcepcion(conversacion, texto_completo)
    /\ UNCHANGED <<guion, conversacion, pos, texto_completo, completions,
                   parserVars, sessionVars,
                   metodoVars, appVars, archivoVars, overflowVars, visionVars>>

LifecycleNext ==
    \/ CrearReq
    \/ EnviarReq
    \/ LeerLinea
    \/ FinStream

LifecycleSpec == LifecycleInit /\ [][LifecycleNext]_vars

----------------------------------------------------------------------------
(* request_lock on its own: the with block of procesar_consulta as one step, *)
(* for more threads than the calls followed attempt by attempt               *)

NumHilos == 3

Hilos == 1..NumHilos

SinHilo(q, h) == SelectSeq(q, LAMBDA x : x # h)

LockInit ==
    /\ pc = [h \in Hilos |-> "idle"]
    /\ request_lock = FALSE
    /\ cola = <<>>
    /\ organization_id = "org"
    /\ transport = "any"
    /\ intento = [c \in Callers |-> 0]
    /\ conversation_id = [c \in Callers |-> SinId]
    /\ conv_attempt = [c \in Callers |-> SinId]
    /\ respuesta_raw = [c \in Callers |-> None]
    /\ documento = [c \in Callers |-> NoDoc]
    /\ e = [c \in Callers |-> "None"]
    /\ ultimo_error = [c \in Callers |-> "None"]
    /\ resultado = [c \in Callers |-> Pendiente]
    /\ uploads = [c \in Callers |-> 0]
    /\ backoffs = [c \in Callers |-> 0]
    /\ fallidos = [c \in Callers |-> 0]
    /\ deletes = [c \in Callers |-> 0]
    /\ file_uuid = [c \in Callers |-> SinFile]
    /\ borrado = NoBorrado
    /\ files_enviados = [c \in Callers |-> SinFile]
    /\ creada = [c \in Callers |-> FALSE]
    /\ raw = None
    /\ doc = NoDoc
    /\ LifecycleIdle
    /\ MetodoIdle
    /\ AppIdle
    /\ ArchivoIdle
    /\ OverflowIdle
    /\ VisionIdle

\* What a step of the lock leaves alone
LockFrame ==
    UNCHANGED <<organization_id, transport, intento, conversation_id, conv_attempt,
                respuesta_raw, documento, e, ultimo_error, resultado, uploads,
                backoffs, fallidos, deletes, file_uuid, borrado, files_enviados, creada,
                raw, doc, lifecycleVars,
                   metodoVars, appVars, archivoVars, overflowVars, visionVars>>

\* A thread calls procesar_consulta and reaches `with self.request_lock`:
\* Lock.acquire() takes a free lock at once (also when other threads are
\* blocked on it and have not run yet), and blocks on a held one
Llegar(h) ==
    /\ pc[h] = "idle"
    /\ IF LockLibre
       THEN /\ request_lock' = TRUE
            /\ pc' = [pc EXCEPT ![h] = "loop"]
            /\ cola' = cola
       ELSE /\ pc' = [pc EXCEPT ![h] = "waiting"]
            /\ cola' = Append(cola, h)
            /\ request_lock' = request_lock
    /\ LockFrame

\* A blocked thread gets the lock once it is free: which of the blocked
\* threads proceeds is not defined by threading.Lock
Despertar(h) ==
    /\ pc[h] = "waiting"
    /\ LockLibre
    /\ request_lock' = TRUE
    /\ pc' = [pc EXCEPT ![h] = "loop"]
    /\ cola' = SinHilo(cola, h)
    /\ LockFrame

\* The with block is left, by the return or by the terminal error: the lock
\* is released
Salir(h) ==
    /\ pc[h] = "loop"
    /\ \E fin \in {"returned", "raised"} : pc' = [pc EXCEPT ![h] = fin]
    /\ request_lock' = FALSE
    /\ cola' = cola
    /\ LockFrame

LockNext == \E h \in Hilos : Llegar(h) \/ Despertar(h) \/ Salir(h)

LockSpec == LockInit /\ [][LockNext]_vars

----------------------------------------------------------------------------
(* login_api: enviar_codigo and verificar_codigo *)

\* The decimal digits
Decimales == {"0", "1", "2", "3", "4", "5", "6", "7", "8", "9"}

\* The characters str.isdigit() accepts: the decimal digits and the
\* superscripts U+00B2, U+00B3 and U+00B9
Digitos == Decimales \cup {"²", "³", "¹"}

\* str.isdigit(): the string is not empty and all its characters are digits
isdigit(s) == s # <<>> /\ \A i \in DOMAIN s : s[i] \in Digitos

\* if len(code) != 6 or not code.isdigit(): return the failure at once
CodigoValido(code) == ~(Len(code) # 6 \/ ~isdigit(code))

\* The codes given to verificar_codigo
Codigos ==
    {<<"1","2","3","4","5","6">>, <<"1","2","3","4","5">>, <<"1","2","3","4","5","6","7">>,
     <<"1","2","a","4","5","6">>, <<"1","2"," ","4","5","6">>, <<>>,
     <<"1","2","3","4","5","²">>}

\* What the POST of a login function meets: it raises ("timeout") or is
\* answered with a status and a body, which is no JSON (json FALSE) or a JSON
\* object whose "success" is the field success and which holds an "error"
\* object with a "message" or not (mensaje)
RespuestasLogin ==
    {r \in [red : {"ok", "timeout"}, status : {"200", "401", "429", "500"},
             json : BOOLEAN, success : BOOLEAN, mensaje : BOOLEAN] :
        r.mensaje => r.json}

\* The exception of data = response.json(); data['error']['message'] on a 429,
\* "None" if the message is read: the body is no JSON, or it has no "error"
\* with a "message"
ExcRateLimit(resp) ==
    IF ~resp.json THEN "JSONDecodeError"
    ELSE IF ~resp.mensaje THEN "KeyError"
    ELSE "None"

\* What a login function gives back: it returned a dict with this "success"
\* and "error", or it raised (no try encloses its request); the requests it
\* issued; and claude_cookies_selenium.json afterwards
ResultadoLogin(success, error, raised, peticiones, archivo) ==
    [success |-> success, error |-> error, raised |-> raised,
     peticiones |-> peticiones, archivo |-> archivo]

\* enviar_codigo: 429 and every other status but 200 are failures, 200 is a
\* success whatever its body; the failure on 429 reads the message of the JSON
\* body, outside any try
enviar_codigo(resp, archivo) ==
    IF resp.red # "ok" THEN ResultadoLogin(FALSE, "None", TRUE, 1, archivo)
    ELSE IF resp.status = "429"
         THEN IF ExcRateLimit(resp) = "None"
              THEN ResultadoLogin(FALSE, "Rate limit", FALSE, 1, archivo)
              ELSE ResultadoLogin(FALSE, "None", TRUE, 1, archivo)
    ELSE IF resp.status # "200"
         THEN ResultadoLogin(FALSE, "error_msg", FALSE, 1, archivo)
    ELSE ResultadoLogin(TRUE, "None", FALSE, 1, archivo)

\* verificar_codigo(email, code, session): the cookies of the login session
\* (session, a cookie set) are written to the file only after a 200 whose JSON
\* body has a true "success"
verificar_codigo(code, session, resp, archivo) ==
    IF ~CodigoValido(code)
    THEN ResultadoLogin(FALSE, "El codigo debe ser de 6 digitos", FALSE, 0, archivo)
    ELSE IF resp.red # "ok" THEN ResultadoLogin(FALSE, "None", TRUE, 1, archivo)
    ELSE IF resp.status = "429"
         THEN IF ExcRateLimit(resp) = "None"
              THEN ResultadoLogin(FALSE, "Rate limit", FALSE, 1, archivo)
              ELSE ResultadoLogin(FALSE, "None", TRUE, 1, archivo)
    ELSE IF resp.status = "401"
         THEN ResultadoLogin(FALSE, "Codigo incorrecto o expirado", FALSE, 1, archivo)
    ELSE IF resp.status # "200"
         THEN ResultadoLogin(FALSE, "error_msg", FALSE, 1, archivo)
    ELSE IF ~resp.json THEN ResultadoLogin(FALSE, "None", TRUE, 1, archivo)
    ELSE IF ~resp.success THEN ResultadoLogin(FALSE, "str(data)", FALSE, 1, archivo)
    ELSE ResultadoLogin(TRUE, "None", FALSE, 1, session)

----------------------------------------------------------------------------
(* subir_archivo, obtener_organization_id and verificar_codigo, each called  *)
(* on its own against a transport that answers as llamada says              *)

\* The states of claude_cookies_selenium.json before verificar_codigo: absent,
\* malformed, or the cookie set 1
ArchivosPrevios == {SinArchivo, Malformado, 1}

\* The cookie set held by the login session given to verificar_codigo
CookiesLogin == 2

Llamadas ==
    {[metodo |-> "subir_archivo", resp |-> o] : o \in Subidas}
    \cup {[metodo |-> "obtener_organization_id", resp |-> r] : r \in Organizaciones}
    \cup {[metodo |-> "verificar_codigo", code |-> c, resp |-> v, previo |-> a] :
             c \in Codigos, v \in RespuestasLogin, a \in ArchivosPrevios}

MetodoInit ==
    /\ llamada \in Llamadas
    /\ valor = NoValor
    /\ cookie_file = IF llamada.metodo = "verificar_codigo" THEN llamada.previo ELSE 1
    /\ proceso = "sirviendo"
    /\ claude_session = 0
    /\ sesiones = <<>>
    /\ login_sessions = {}
    /\ chats = [r \in Chats |-> ChatIdle]
    /\ ultima = NoOp
    /\ verificando = NoVerificacion
    /\ manual = "no"
    /\ ArchivoIdle
    /\ OverflowIdle
    /\ VisionIdle
    /\ SessionIdle
    /\ LifecycleIdle
    /\ raw = None
    /\ doc = NoDoc

\* file_uuid = session.subir_archivo(archivo_path)
SubirArchivo ==
    /\ llamada.metodo = "subir_archivo"
    /\ valor = NoValor
    /\ valor' = [metodo |-> "subir_archivo", v |-> subir_archivo(1, 1, llamada.resp)]
    /\ UNCHANGED <<llamada, appVars, archivoVars, overflowVars, visionVars,
                   parserVars, sessionVars, lifecycleVars>>

\* org_id = session.obtener_organization_id()
ObtenerOrganizacion ==
    /\ llamada.metodo = "obtener_organization_id"
    /\ valor = NoValor
    /\ valor' = [metodo |-> "obtener_organization_id",
                 v |-> obtener_organization_id(llamada.resp)]
    /\ UNCHANGED <<llamada, appVars, archivoVars, overflowVars, visionVars,
                   parserVars, sessionVars, lifecycleVars>>

\* resultado = login_api.verificar_codigo(email, code, session)
VerificarCodigo ==
    /\ llamada.metodo = "verificar_codigo"
    /\ valor = NoValor
    /\ LET r == verificar_codigo(llamada.code, CookiesLogin, llamada.resp, cookie_file) IN
         /\ valor' = [metodo |-> "verificar_codigo", v |-> r]
         /\ cookie_file' = r.archivo
    /\ UNCHANGED <<llamada, proceso, claude_session, sesiones, login_sessions, chats,
                   ultima, verificando, manual, archivoVars, overflowVars, visionVars, parserVars,
                   sessionVars, lifecycleVars>>

MetodoNext ==
    \/ SubirArchivo
    \/ ObtenerOrganizacion
    \/ VerificarCodigo

MetodoSpec == MetodoInit /\ [][MetodoNext]_vars

----------------------------------------------------------------------------
(* The application: lifespan, the chat endpoints, send-code, verify-code and *)
(* reload-session over the globals claude_session and login_sessions, served *)
(* by the one event loop of uvicorn.run(app)                                 *)

\* The endpoint calls of the login flow and of reload-session followed: on
\* their own, and next to the chat requests
MaxOps == 3

MaxOpsApp == 2

Emails == {"a@x", "b@x"}

\* The cookie set manual_login.py saves
CookiesManual == 1

\* The exception cargar_cookies raises, "None" if it returns: open() on an
\* absent file, json.load or cookie['name'] on a malformed one
ExcCargar(archivo) ==
    IF archivo = SinArchivo THEN "FileNotFoundError"
    ELSE IF archivo = Malformado THEN "JSONDecodeError"
    ELSE "None"

\* What json.dump of manual_login.py leaves in the file it had opened: its
\* cookie set when the file is as its open() left it. When verificar_codigo has
\* written the file meanwhile, the script's text goes over the start of that
\* text: the file holds the script's cookie set when its text is the longer
\* one, and no JSON otherwise
Volcado(archivo) ==
    IF archivo = Malformado THEN {CookiesManual} ELSE {CookiesManual, Malformado}

\* The cookies a response of the upstream may name in its Set-Cookie headers
SetCookies == {"sessionKey"}

\* What the Set-Cookie headers of a response do to the cookies of a name that
\* the jar holds from responses: nothing (the response does not name it, or
\* expires it for a domain or path under which the jar holds none while it
\* holds one under another), put one there, or expire the ones held (Max-Age=0
\* or an Expires in the past, for the domain and path they were set with),
\* which removes them
EfectosCookie == [SetCookies -> {"nada", "pone", "caduca"}]

\* A response that names no cookie, and a request that raised
SinEfecto == [n \in SetCookies |-> "nada"]

\* self.session.cookies after a response: requests adds the cookies the
\* response sets to the jar of the session and drops from it the ones the
\* response expires; the cookies put there from the file, which belong to no
\* domain, stay, and the requests that follow send what the jar holds
Recibir(jar, efecto) ==
    [jar EXCEPT !.recibidas = (@ \ {n \in SetCookies : efecto[n] = "caduca"})
                                 \cup {n \in SetCookies : efecto[n] = "pone"}]

\* ClaudeAPISession(): cookies_dict read from the file, a new Lock, a
\* requests.Session whose jar is updated with cookies_dict, and the
\* organization looked up once through that session; the answer to the lookup
\* acts on the jar
NuevaSesion(archivo, resp, efecto) ==
    [cookies |-> archivo,
     jar |-> Recibir([cargadas |-> archivo, recibidas |-> {}],
                     IF resp.status \in {"timeout", "conexion"} THEN SinEfecto ELSE efecto),
     organization_id |-> obtener_organization_id(resp),
     request_lock |-> FALSE]

\* The session objects the constructor may leave, over the answers its lookup
\* may meet
SesionesNuevas(archivo) ==
    {NuevaSesion(archivo, resp, efecto) : resp \in OrgLookups, efecto \in EfectosCookie}

\* The jars a response may leave
TrasRespuesta(jar) == {Recibir(jar, efecto) : efecto \in EfectosCookie}

\* lifespan: except FileNotFoundError: claude_session = None
LifespanAtrapa(exc) == exc = "FileNotFoundError"

\* The session object when procesar_consulta leaves its with block: the lock
\* is released and no attribute is assigned
TrasProcesar(sesion) == [sesion EXCEPT !.request_lock = FALSE]

\* LoopLibre with a slip: the handlers declared def, each run in a thread of
\* the pool
LoopLibre_Hilos == TRUE

\* The event loop is not inside a handler. The handlers are async def and
\* call procesar_consulta, ClaudeAPISession() and login_api, which block, with
\* no await: from there to the handler's return the loop serves nothing else
LoopLibre ==
    /\ verificando = NoVerificacion
    /\ \A r \in Chats : chats[r].estado # "procesando"

\* session = login_sessions.get(request.email); if not session: return the
\* failure
HaySesionLogin(email) == email \in login_sessions

\* The answers met by send-code and verify-code
SendAnswers ==
    {r \in RespuestasLogin :
        r.json /\ r.success /\ (r.red = "timeout" => r.status = "200")
        /\ r.status \in {"200", "429"} /\ (r.mensaje => r.status = "429")}

VerifyAnswers ==
    {r \in RespuestasLogin :
        r.json /\ (r.red = "timeout" => r.status = "200" /\ r.success)
        /\ (r.status # "200" => r.success) /\ r.status \in {"200", "401"}
        /\ ~r.mensaje}

CodigosApp ==
    {<<"1","2","3","4","5","6">>, <<"1","2","3","4","5">>, <<"1","2","3","4","5","²">>}

\* What an endpoint call is remembered by: its number, the email it was about,
\* whether it answered success, the HTTP status and the upstream requests it
\* issued
Op(op, n, email, success, http, peticiones) ==
    [op |-> op, n |-> n, email |-> email, success |-> success, http |-> http,
     peticiones |-> peticiones]

AppInit ==
    /\ cookie_file \in {SinArchivo, Malformado, CookiesManual}
    /\ proceso = "arrancando"
    /\ claude_session = 0
    /\ sesiones = <<>>
    /\ login_sessions = {}
    /\ chats = [r \in Chats |-> ChatIdle]
    /\ ultima = Op("ninguna", 0, "None", FALSE, "None", 0)
    /\ verificando = NoVerificacion
    /\ manual = "no"
    /\ MetodoIdle
    /\ ArchivoIdle
    /\ OverflowIdle
    /\ VisionIdle
    /\ SessionIdle
    /\ LifecycleIdle
    /\ raw = None
    /\ doc = NoDoc

AppFrame ==
    UNCHANGED <<metodoVars, archivoVars, overflowVars, visionVars, parserVars,
                sessionVars, lifecycleVars>>

\* lifespan: claude_session = ClaudeAPISession(), None on FileNotFoundError;
\* any other exception of the constructor leaves lifespan and the startup
\* fails. The constructor issues the organization lookup once the cookies are
\* loaded
Lifespan ==
    /\ proceso = "arrancando"
    /\ IF ExcCargar(cookie_file) = "None"
       THEN /\ \E nueva \in SesionesNuevas(cookie_file) :
                 sesiones' = Append(sesiones, nueva)
            /\ claude_session' = Len(sesiones) + 1
            /\ proceso' = "sirviendo"
       ELSE /\ UNCHANGED <<sesiones, claude_session>>
            /\ proceso' = IF LifespanAtrapa(ExcCargar(cookie_file))
                          THEN "sirviendo"
                          ELSE "caido"
    /\ ultima' = Op("lifespan", 0, "None", claude_session' # 0, "None",
                    IF ExcCargar(cookie_file) = "None" THEN 1 ELSE 0)
    /\ UNCHANGED <<cookie_file, login_sessions, chats, verificando, manual>>
    /\ AppFrame

\* manual_login.py, run by hand in a process of its own, whatever the
\* application is doing, reaches `with open("claude_cookies_selenium.json",
\* "w")`: the file is there and empty
ManualAbrir ==
    /\ manual = "no"
    /\ manual' = "abierto"
    /\ cookie_file' = Malformado
    /\ UNCHANGED <<proceso, claude_session, sesiones, login_sessions, chats, ultima,
                   verificando>>
    /\ AppFrame

\* json.dump(cookies, f, indent=2) of manual_login.py and the end of its with
\* block: the browser's cookies are in the file
ManualVolcar ==
    /\ manual = "abierto"
    /\ manual' = "no"
    /\ cookie_file' \in Volcado(cookie_file)
    /\ UNCHANGED <<proceso, claude_session, sesiones, login_sessions, chats, ultima,
                   verificando>>
    /\ AppFrame

\* A chat endpoint is called, the requests numbered in the order they arrive:
\* if claude_session is None: raise HTTPException(503). /chat/file then
\* suspends at `await file.read()`, where the loop serves other requests
\* before it resumes this one
ChatEntrar(r) ==
    /\ proceso = "sirviendo"
    /\ LoopLibre
    /\ chats[r].estado = "idle"
    /\ \A q \in Chats : q < r => chats[q].estado # "idle"
    /\ chats' = [chats EXCEPT ![r].estado =
                    IF claude_session = 0 THEN "rechazada" ELSE "admitida"]
    /\ UNCHANGED <<cookie_file, proceso, claude_session, sesiones, login_sessions, ultima,
                   verificando, manual>>
    /\ AppFrame

\* claude_session.procesar_consulta(path): the global is read and the call
\* enters `with self.request_lock` on that object; the call blocks the loop
ChatLlamar(r) ==
    /\ LoopLibre
    /\ chats[r].estado = "admitida"
    /\ ~sesiones[claude_session].request_lock
    /\ chats' = [chats EXCEPT ![r].estado = "procesando", ![r].self = claude_session]
    /\ sesiones' = [sesiones EXCEPT ![claude_session].request_lock = TRUE]
    /\ UNCHANGED <<cookie_file, proceso, claude_session, login_sessions, ultima,
                   verificando, manual>>
    /\ AppFrame

\* A request of the call (upload, create, completion, delete) is answered:
\* self.session keeps the cookies the response sets and drops the ones it
\* expires
ChatRespuesta(r) ==
    /\ chats[r].estado = "procesando"
    /\ \E jar \in TrasRespuesta(sesiones[chats[r].self].jar) :
         sesiones' = [sesiones EXCEPT ![chats[r].self].jar = jar]
    /\ UNCHANGED <<cookie_file, proceso, claude_session, login_sessions, chats, ultima,
                   verificando, manual>>
    /\ AppFrame

\* procesar_consulta returns or raises, and the endpoint answers
ChatTerminar(r) ==
    /\ chats[r].estado = "procesando"
    /\ chats' = [chats EXCEPT ![r].estado = "hecha"]
    /\ sesiones' = [sesiones EXCEPT ![chats[r].self] = TrasProcesar(@)]
    /\ UNCHANGED <<cookie_file, proceso, claude_session, login_sessions, ultima,
                   verificando, manual>>
    /\ AppFrame

\* send_code_endpoint: a successful enviar_codigo leaves its session in
\* login_sessions[email]; an exception is answered 500
SendCode(email, max) ==
    /\ proceso = "sirviendo"
    /\ LoopLibre
    /\ ultima.n < max
    /\ \E resp \in SendAnswers :
         LET r == enviar_codigo(resp, cookie_file) IN
           /\ login_sessions' = IF r.success
                                THEN login_sessions \cup {email}
                                ELSE login_sessions
           /\ ultima' = Op("send_code", ultima.n + 1, email, r.success,
                           IF r.raised THEN "500" ELSE "200", r.peticiones)
    /\ UNCHANGED <<cookie_file, proceso, claude_session, sesiones, chats, verificando,
                   manual>>
    /\ AppFrame

\* verify_code_endpoint up to `del login_sessions[request.email]`: without a
\* pending login session the failure is answered at once; a verificar_codigo
\* that failed is answered with its error, one that raised with 500, and
\* neither changes a global; after one that succeeded, which has written the
\* cookie file, the pending session is dropped and the constructor is next
VerifyCode(email, max) ==
    /\ proceso = "sirviendo"
    /\ LoopLibre
    /\ ultima.n < max
    /\ IF ~HaySesionLogin(email)
       THEN /\ ultima' = Op("verify_code", ultima.n + 1, email, FALSE, "200", 0)
            /\ UNCHANGED <<cookie_file, login_sessions, verificando>>
       ELSE \E code \in CodigosApp, resp \in VerifyAnswers :
              LET r == verificar_codigo(code, CookiesLogin, resp, cookie_file) IN
                /\ cookie_file' = r.archivo
                /\ IF r.success
                   THEN /\ login_sessions' = login_sessions \ {email}
                        /\ verificando' = [email |-> email, peticiones |-> r.peticiones]
                        /\ UNCHANGED ultima
                   ELSE /\ ultima' = Op("verify_code", ultima.n + 1, email, FALSE,
                                        IF r.raised THEN "500" ELSE "200", r.peticiones)
                        /\ UNCHANGED <<login_sessions, verificando>>
    /\ UNCHANGED <<proceso, claude_session, sesiones, chats, manual>>
    /\ AppFrame

\* verify_code_endpoint from `claude_session = ClaudeAPISession()` on: the
\* constructor reads the cookie file as it is by now, which manual_login.py
\* may have opened or written since verificar_codigo wrote it, and issues the
\* organization lookup; an exception of the constructor is answered 500 and
\* leaves the global as it was, the pending login session being gone already
VerifyInstalar ==
    /\ verificando # NoVerificacion
    /\ IF ExcCargar(cookie_file) = "None"
       THEN /\ \E nueva \in SesionesNuevas(cookie_file) :
                 sesiones' = Append(sesiones, nueva)
            /\ claude_session' = Len(sesiones) + 1
            /\ ultima' = Op("verify_code", ultima.n + 1, verificando.email, TRUE, "200",
                            verificando.peticiones + 1)
       ELSE /\ UNCHANGED <<sesiones, claude_session>>
            /\ ultima' = Op("verify_code", ultima.n + 1, verificando.email, FALSE, "500",
                            verificando.peticiones)
    /\ verificando' = NoVerificacion
    /\ UNCHANGED <<cookie_file, proceso, login_sessions, chats, manual>>
    /\ AppFrame

\* reload_session_endpoint: claude_session = ClaudeAPISession(); an exception
\* of the constructor is answered 500 and leaves the global as it was
ReloadSession(max) ==
    /\ proceso = "sirviendo"
    /\ LoopLibre
    /\ ultima.n < max
    /\ IF ExcCargar(cookie_file) = "None"
       THEN /\ \E nueva \in SesionesNuevas(cookie_file) :
                 sesiones' = Append(sesiones, nueva)
            /\ claude_session' = Len(sesiones) + 1
            /\ ultima' = Op("reload_session", ultima.n + 1, "None", TRUE, "200", 1)
       ELSE /\ UNCHANGED <<sesiones, claude_session>>
            /\ ultima' = Op("reload_session", ultima.n + 1, "None", FALSE, "500", 0)
    /\ UNCHANGED <<cookie_file, proceso, login_sessions, chats, verificando, manual>>
    /\ AppFrame

AppNext ==
    \/ Lifespan
    \/ ManualAbrir
    \/ ManualVolcar
    \/ \E r \in Chats : ChatEntrar(r)
    \/ \E r \in Chats : ChatLlamar(r)
    \/ \E r \in Chats : ChatRespuesta(r)
    \/ \E r \in Chats : ChatTerminar(r)
    \/ \E email \in Emails : SendCode(email, MaxOpsApp)
    \/ \E email \in Emails : VerifyCode(email, MaxOpsApp)
    \/ VerifyInstalar
    \/ ReloadSession(MaxOpsApp)

AppSpec == AppInit /\ [][AppNext]_vars

\* The login flow and reload-session with no chat request made
LoginNext ==
    \/ Lifespan
    \/ ManualAbrir
    \/ ManualVolcar
    \/ \E email \in Emails : SendCode(email, MaxOps)
    \/ \E email \in Emails : VerifyCode(email, MaxOps)
    \/ VerifyInstalar
    \/ ReloadSession(MaxOps)

LoginSpec == AppInit /\ [][LoginNext]_vars

----------------------------------------------------------------------------
(* chat_file_endpoint followed on its own, step by step *)

\* str.endswith(suffix)
endswith(s, suffix) ==
    /\ Len(s) >= Len(suffix)
    /\ SubSeq(s, Len(s) - Len(suffix) + 1, Len(s)) = suffix

PDF_SUFFIX == <<".","p","d","f">>

\* The file names of the uploads tried; None is an upload sent without one
Nombres ==
    { <<"a",".","p","d","f">>,
      <<"A",".","P","D","F">>,
      <<"a",".","P","d","f">>,
      <<"É",".","P","D","F">>,
      <<".","p","d","f">>,
      <<"a",".","t","x","t">>,
      <<"a",".","p","d","f",".","t","x","t">>,
      <<"p","d","f">>,
      <<>>,
      None }

\* What a /chat/file request meets: its file name, whether a session is
\* installed, whether reading the upload returns, raises, or is where the
\* request is cancelled, whether procesar_consulta returns or raises its
\* terminal error, and whether os.unlink removes the file or raises (the file
\* is open in another process on Windows, the directory is not writable)
PeticionesArchivo ==
    [filename : Nombres, sesion : BOOLEAN, lectura : {"ok", "falla", "cancelada"},
     proceso : {"retorna", "lanza"}, unlink : {"ok", "falla"}]

\* The exception of `if not file.filename.lower().endswith('.pdf'): raise
\* HTTPException(status_code=400, detail="Solo PDF")`, "None" if it passes:
\* None has no lower()
ExcNombre(filename) ==
    IF ~IsStr(filename) THEN "AttributeError"
    ELSE IF ~endswith(lower(filename), PDF_SUFFIX) THEN "HTTPException(400, Solo PDF)"
    ELSE "None"

\* except Exception as e: raise HTTPException(status_code=500, detail=str(e));
\* HTTPException is an Exception, so the 400 raised inside the try is caught
\* here as well
Capturar(exc) == [status |-> 500, detail |-> exc]

\* finally: try: os.unlink(tmp_path) except: pass, on the return and on the
\* exception alike: the file is removed unless the unlink raises, which is
\* swallowed
Limpia(unlink) == unlink = "ok"

ChatFileInit ==
    /\ subida \in PeticionesArchivo
    /\ fpc = "llamado"
    /\ temporal = "ninguno"
    /\ procesados = <<>>
    /\ respuesta = NoRespuesta
    /\ cookie_file = CookiesManual
    /\ proceso = "sirviendo"
    /\ claude_session = IF subida.sesion THEN 1 ELSE 0
    /\ IF subida.sesion
       THEN \E nueva \in SesionesNuevas(CookiesManual) : sesiones = <<nueva>>
       ELSE sesiones = <<>>
    /\ login_sessions = {}
    /\ chats = [r \in Chats |-> ChatIdle]
    /\ ultima = Op("ninguna", 0, "None", FALSE, "None", 0)
    /\ verificando = NoVerificacion
    /\ manual = "no"
    /\ MetodoIdle
    /\ OverflowIdle
    /\ VisionIdle
    /\ SessionIdle
    /\ LifecycleIdle
    /\ raw = None
    /\ doc = NoDoc

ArchivoFrame ==
    UNCHANGED <<subida, appVars, metodoVars, parserVars, sessionVars, lifecycleVars,
                overflowVars, visionVars>>

\* if claude_session is None: raise HTTPException(status_code=503), outside
\* the try
ArchivoEntrar ==
    /\ fpc = "llamado"
    /\ IF claude_session = 0
       THEN /\ respuesta' = [status |-> 503, detail |-> "No autenticado"]
            /\ fpc' = "respondido"
       ELSE /\ fpc' = "validar"
            /\ UNCHANGED respuesta
    /\ UNCHANGED <<temporal, procesados>>
    /\ ArchivoFrame

\* The extension check, inside the try
ArchivoValidar ==
    /\ fpc = "validar"
    /\ IF ExcNombre(subida.filename) # "None"
       THEN /\ respuesta' = Capturar(ExcNombre(subida.filename))
            /\ fpc' = "respondido"
       ELSE /\ fpc' = "crear"
            /\ UNCHANGED respuesta
    /\ UNCHANGED <<temporal, procesados>>
    /\ ArchivoFrame

\* with tempfile.NamedTemporaryFile(delete=False, suffix='.pdf') as tmp: the
\* file is created, and `await file.read()` suspends the endpoint
ArchivoCrear ==
    /\ fpc = "crear"
    /\ temporal' = "existe"
    /\ fpc' = "leyendo"
    /\ UNCHANGED <<respuesta, procesados>>
    /\ ArchivoFrame

\* While the endpoint is suspended the event loop serves other requests:
\* /auth/reload-session replaces the global claude_session
ArchivoRecargar ==
    /\ fpc = "leyendo"
    /\ ReloadSession(MaxOpsApp)

\* The endpoint is resumed: tmp.write(...) of what was read; a read that
\* raises leaves the with block and the try with the file in place and is
\* answered 500; a request cancelled while suspended gets CancelledError,
\* which is no Exception: nothing is answered and the file stays
ArchivoEscribir ==
    /\ fpc = "leyendo"
    /\ IF subida.lectura = "falla"
       THEN /\ respuesta' = Capturar("Exception")
            /\ fpc' = "respondido"
       ELSE /\ fpc' = IF subida.lectura = "cancelada" THEN "cancelado" ELSE "procesar"
            /\ UNCHANGED respuesta
    /\ UNCHANGED <<temporal, procesados>>
    /\ ArchivoFrame

\* try: claude_session.procesar_consulta(tmp_path), on the session object the
\* global holds by now, whose jar is left as the answers to the requests of
\* the call, one after the other, have made it; return ChatResponse(...)
\* finally: os.unlink(tmp_path), whose exception is dropped: the answer is the
\* same with the file removed and with the file left
ArchivoProcesar ==
    /\ fpc = "procesar"
    /\ procesados' = Append(procesados, claude_session)
    /\ \E jar \in TrasRespuesta(sesiones[claude_session].jar) :
         sesiones' = [sesiones EXCEPT ![claude_session] =
                         TrasProcesar([@ EXCEPT !.jar = jar])]
    /\ LET exito == subida.proceso = "retorna" IN
         /\ temporal' = IF Limpia(subida.unlink) THEN "borrado" ELSE temporal
         /\ respuesta' = IF exito
                         THEN [status |-> 200, detail |-> "ChatResponse"]
                         ELSE Capturar("Exception")
    /\ fpc' = "respondido"
    /\ UNCHANGED <<subida, cookie_file, proceso, claude_session, login_sessions, chats,
                   ultima, verificando, manual, metodoVars, parserVars, sessionVars,
                   lifecycleVars, overflowVars, visionVars>>

ChatFileNext ==
    \/ ArchivoEntrar
    \/ ArchivoValidar
    \/ ArchivoCrear
    \/ ArchivoRecargar
    \/ ArchivoEscribir
    \/ ArchivoProcesar

ChatFileSpec == ChatFileInit /\ [][ChatFileNext]_vars

----------------------------------------------------------------------------
(* app.py and app_fastapi.py: _move_nombre_overflow_to_adicional, the same  *)
(* function in both files, over the rows of final_items                     *)

\* A cell that holds a number (cantidad, precio): no str and not None
NUM == <<"Number">>

\* isinstance(v, str)
isinstance_str(v) == v \notin {None, NUM}

\* s[:n]
Hasta(s, n) == SubSeq(s, 1, IF n < Len(s) THEN n ELSE Len(s))

\* s[n:]
Desde(s, n) == SubSeq(s, n + 1, Len(s))

\* name_limit, adicional1_limit and adicional2_limit, as groq_vision_extract
\* passes them and as the defaults give them
NAME_LIMIT == 60

ADICIONAL1_LIMIT == 60

ADICIONAL2_LIMIT == 60

\* columnas.index("nombre"), "adicional1", "adicional2" on the columnas of
\* final_items, counted from 1
IDX_NOMBRE == 1

IDX_AD1 == 5

IDX_AD2 == 6

\* while len(row) <= idx_ad2: row.append(None)
Completar(row) ==
    IF Len(row) < IDX_AD2
    THEN row \o [i \in 1..(IDX_AD2 - Len(row)) |-> None]
    ELSE row

\* max(0, adicional1_limit - len(existing_ad1.strip()))
Ad1Space(existing_ad1) ==
    IF ADICIONAL1_LIMIT - Len(strip(existing_ad1)) > 0
    THEN ADICIONAL1_LIMIT - Len(strip(existing_ad1))
    ELSE 0

\* if isinstance(to, str) and limit and len(to) > limit: to = to[:limit].strip()
Asegurar(to, limit) ==
    IF isinstance_str(to) /\ Len(to) > limit THEN strip(Hasta(to, limit)) ELSE to

\* row[idx] = to if to else None
Celda(to) == IF Truthy(to) THEN to ELSE None

\* The body of the loop for one row with a nombre longer than name_limit.
\* existing_ad2 is read and then used nowhere.
Repartir(row) ==
    LET nombre == row[IDX_NOMBRE]
        overflow == strip(Desde(nombre, NAME_LIMIT))
        existing_ad1 == IF isinstance_str(row[IDX_AD1]) THEN row[IDX_AD1] ELSE <<>>
        ad1_space == Ad1Space(existing_ad1)
        take == Hasta(overflow, ad1_space)
        to_ad1 == IF ad1_space > 0
                  THEN strip(strip(existing_ad1)
                             \o (IF Truthy(strip(existing_ad1))
                                 THEN <<" ">> \o strip(take)
                                 ELSE strip(take)))
                  ELSE IF Truthy(strip(existing_ad1)) THEN strip(existing_ad1) ELSE None
        remaining == IF ad1_space > 0 THEN strip(Desde(overflow, Len(take))) ELSE overflow
        to_ad2 == IF Truthy(remaining) THEN strip(Hasta(remaining, ADICIONAL2_LIMIT))
                  ELSE <<>>
    IN  [row EXCEPT ![IDX_NOMBRE] = strip(Hasta(nombre, NAME_LIMIT)),
                    ![IDX_AD1] = Celda(Asegurar(to_ad1, ADICIONAL1_LIMIT)),
                    ![IDX_AD2] = Celda(Asegurar(to_ad2, ADICIONAL2_LIMIT))]

\* The loop's body for one row: padded to six cells, and left as it is unless
\* nombre is a str longer than name_limit
MoverFila(row) ==
    LET r == Completar(row) IN
      IF ~isinstance_str(r[IDX_NOMBRE]) \/ Len(r[IDX_NOMBRE]) <= NAME_LIMIT
      THEN r
      ELSE Repartir(r)

\* _move_nombre_overflow_to_adicional(items): every row of datos in place
move_nombre_overflow_to_adicional(datos) == [i \in DOMAIN datos |-> MoverFila(datos[i])]

\* n letters, the alphabet cycling from the letter after position off
Texto(n, off) == [i \in 1..n |-> LowerCase[((i + off - 1) % 26) + 1]]

Equis(n) == [i \in 1..n |-> "X"]

\* The values of nombre tried: within the limit, just over it, long enough to
\* fill adicional1 and adicional2 and beyond, with blanks at the cut and
\* inside the overflow, and no str
NOMBRES ==
    { Texto(10, 0), Texto(60, 0), Texto(61, 0), Texto(70, 0), Texto(121, 0),
      Texto(130, 0), Texto(200, 0),
      Texto(60, 0) \o <<" ">>,
      Texto(58, 0) \o <<" ", " ">> \o Texto(10, 0),
      Texto(60, 0) \o <<" ">> \o Texto(5, 0),
      Texto(69, 0) \o <<" ">> \o Texto(20, 0),
      None, NUM }

\* The values already in adicional1: none, blank, short, with blanks around,
\* one and two short of the limit, at the limit, over it
ADICIONALES1 ==
    { None, NUM, <<>>, <<" ", " ">>, <<" ">> \o Equis(4) \o <<" ">>,
      Equis(50), Equis(58), Equis(59), Equis(60), Equis(70) }

\* The values already in adicional2
ADICIONALES2 == { None, <<"O","L","D","2">>, Equis(70) }

UNIDAD == <<"U","N","D">>

\* The rows tried: six cells, and rows that stop after nombre or before
\* adicional2
Filas ==
    {<<n, NUM, NUM, UNIDAD, a1, a2>> :
        n \in NOMBRES, a1 \in ADICIONALES1, a2 \in ADICIONALES2}
    \cup {<<n>> : n \in NOMBRES}
    \cup {<<n, NUM, NUM, UNIDAD, a1>> : n \in NOMBRES, a1 \in {None, Equis(50)}}

\* The rows that come before the last one when datos has more than one
FilasPrevias ==
    { <<Texto(10, 0), NUM, NUM, UNIDAD, None, None>>,
      <<Texto(70, 0), NUM, NUM, UNIDAD, Equis(58), <<"O","L","D","2">>>> }

\* datos has up to MaxFilas rows
MaxFilas == 2

RECURSIVE Datos(_)
Datos(n) ==
    IF n = 1 THEN {<<f>> : f \in Filas}
    ELSE {<<p>> \o d : p \in FilasPrevias, d \in Datos(n - 1)}

OverflowInit ==
    /\ items \in UNION {Datos(n) : n \in 1..MaxFilas}
    /\ items_antes = items
    /\ movido = FALSE
    /\ VisionIdle
    /\ ArchivoIdle
    /\ AppIdle
    /\ MetodoIdle
    /\ SessionIdle
    /\ LifecycleIdle
    /\ raw = None
    /\ doc = NoDoc

\* _move_nombre_overflow_to_adicional(items)
MoverOverflow ==
    /\ ~movido
    /\ items' = move_nombre_overflow_to_adicional(items)
    /\ movido' = TRUE
    /\ UNCHANGED <<items_antes, visionVars, archivoVars, appVars, metodoVars, parserVars,
                   sessionVars, lifecycleVars>>

OverflowNext == MoverOverflow

OverflowSpec == OverflowInit /\ [][OverflowNext]_vars

----------------------------------------------------------------------------
(* app.py and app_fastapi.py: groq_vision_extract, the same loop in both    *)
(* files, followed request by request against a scripted vision service     *)

\* Límite Groq Vision: máximo 5 imágenes por request
MAX_IMAGES_PER_REQUEST == 5

Min(a, b) == IF a < b THEN a ELSE b

\* len(range(0, n, MAX_IMAGES_PER_REQUEST))
NumBatches(n) == (n + MAX_IMAGES_PER_REQUEST - 1) \div MAX_IMAGES_PER_REQUEST

\* batches = [images[i:i + MAX_IMAGES_PER_REQUEST]
\*            for i in range(0, len(images), MAX_IMAGES_PER_REQUEST)]
Batches(imgs) ==
    [k \in 1..NumBatches(Len(imgs)) |->
        SubSeq(imgs, MAX_IMAGES_PER_REQUEST * (k - 1) + 1,
               Min(MAX_IMAGES_PER_REQUEST * k, Len(imgs)))]

\* A header as the service may write it: some fields given, the others null
\* or left out
DocParcial ==
    [DocInicial EXCEPT !.ruc = <<"R","1">>, !.codigo_factura = <<"F","1">>,
                       !.moneda = <<"P","E","N">>]

\* A header with every field given, none the same as in DocParcial
DocCompleto ==
    [ruc |-> <<"R","2">>, empresa |-> <<"E","2">>, codigo_factura |-> <<"F","2">>,
     fecha_emision |-> <<"D","2">>, moneda |-> <<"U","S","D">>,
     vigencia |-> <<"V","2">>, formato_pago |-> <<"P","2">>, igv |-> NUM]

\* parsed["documento"]: left out, no dict, or a dict
SinDocumento == [hay |-> "ausente", campos |-> DocInicial]

DocumentoNoDict == [hay |-> "no_dict", campos |-> DocInicial]

Documento(campos) == [hay |-> "dict", campos |-> campos]

\* Rows as the service may write them
FilaUno == <<Texto(4, 0), NUM, NUM, UNIDAD, None, None>>

FilaDos == <<Texto(6, 3), NUM, NUM, UNIDAD, Equis(4), None>>

FilaLarga == <<Texto(70, 0), NUM, NUM, UNIDAD, None, None>>

FilaCorta == <<Texto(5, 7)>>

\* parsed["items"]: left out, no dict, a dict without datos, a dict whose
\* datos is no list, or a dict with rows
SinItems == [hay |-> "ausente", datos |-> <<>>]

ItemsNoDict == [hay |-> "no_dict", datos |-> <<>>]

ItemsSinDatos == [hay |-> "sin_datos", datos |-> <<>>]

ItemsDatosNoLista == [hay |-> "datos_no_lista", datos |-> <<>>]

Items(datos) == [hay |-> "dict", datos |-> datos]

\* What the service answers to one request: the call raises, the content is
\* no JSON, JSON that is no object, or an object
Contestaciones ==
    { [tipo |-> "raise", documento |-> SinDocumento, items |-> SinItems],
      [tipo |-> "no_json", documento |-> SinDocumento, items |-> SinItems],
      [tipo |-> "lista", documento |-> SinDocumento, items |-> SinItems],
      [tipo |-> "dict", documento |-> Documento(DocParcial),
                        items |-> Items(<<FilaUno, FilaDos>>)],
      [tipo |-> "dict", documento |-> Documento(DocCompleto),
                        items |-> Items(<<FilaUno, FilaUno>>)],
      [tipo |-> "dict", documento |-> DocumentoNoDict,
                        items |-> Items(<<FilaLarga, FilaCorta>>)],
      [tipo |-> "dict", documento |-> SinDocumento, items |-> ItemsDatosNoLista],
      [tipo |-> "dict", documento |-> Documento(DocCompleto), items |-> ItemsSinDatos],
      [tipo |-> "dict", documento |-> Documento(DocParcial), items |-> ItemsNoDict],
      [tipo |-> "dict", documento |-> SinDocumento, items |-> Items(<<>>)] }

\* The documents have up to MaxPaginas pages
MaxPaginas == 11

RECURSIVE Contestadas(_)
Contestadas(n) ==
    IF n = 0 THEN {<<>>}
    ELSE {g \o <<r>> : g \in Contestadas(n - 1), r \in Contestaciones}

\* EsPrimero with a slip: the header is taken from every batch
EsPrimero_Siempre(i) == TRUE

\* is_first = (bi == 0)
EsPrimero(i) == i = 0

\* for k in final_doc.keys(): v = parsed["documento"].get(k, None);
\* if v is not None: final_doc[k] = v
MergeDoc(doc_actual, campos) ==
    [k \in DOMAIN doc_actual |-> IF campos[k] # None THEN campos[k] ELSE doc_actual[k]]

\* The rows an answer adds: items a dict, and datos (default []) a list
Filas_De(r) ==
    IF r.tipo = "dict" /\ r.items.hay = "dict" THEN r.items.datos ELSE <<>>

VisionInit ==
    /\ \E n \in 0..MaxPaginas :
         /\ images = [i \in 1..n |-> i]
         /\ respuestas \in Contestadas(NumBatches(n))
    /\ bi = 0
    /\ final_doc = DocInicial
    /\ final_items = <<>>
    /\ enviados = <<>>
    /\ extraccion = NoExtraccion
    /\ OverflowIdle
    /\ ArchivoIdle
    /\ AppIdle
    /\ MetodoIdle
    /\ SessionIdle
    /\ LifecycleIdle
    /\ raw = None
    /\ doc = NoDoc

VisionFrame ==
    UNCHANGED <<images, respuestas, overflowVars, archivoVars, appVars, metodoVars,
                parserVars, sessionVars, lifecycleVars>>

\* One iteration of `for bi, batch in enumerate(batches)`: the request with
\* the batch's images, _safe_json_load on the answer, and the merge; an
\* exception of the request or of _safe_json_load leaves the function
Lote ==
    /\ extraccion = NoExtraccion
    /\ bi < NumBatches(Len(images))
    /\ enviados' = Append(enviados, Batches(images)[bi + 1])
    /\ LET r == respuestas[bi + 1] IN
         IF r.tipo \in {"raise", "no_json"}
         THEN /\ extraccion' = [estado |-> "raised"]
              /\ UNCHANGED <<bi, final_doc, final_items>>
         ELSE /\ final_doc' = IF /\ EsPrimero(bi)
                                 /\ r.tipo = "dict"
                                 /\ r.documento.hay = "dict"
                              THEN MergeDoc(final_doc, r.documento.campos)
                              ELSE final_doc
              /\ final_items' = final_items \o Filas_De(r)
              /\ bi' = bi + 1
              /\ UNCHANGED extraccion
    /\ VisionFrame

\* After the loop: _move_nombre_overflow_to_adicional(final_items) and
\* return {"documento": final_doc, "items": final_items}
Retornar ==
    /\ extraccion = NoExtraccion
    /\ bi = NumBatches(Len(images))
    /\ final_items' = move_nombre_overflow_to_adicional(final_items)
    /\ extraccion' = [estado |-> "returned", documento |-> final_doc,
                      items |-> move_nombre_overflow_to_adicional(final_items)]
    /\ UNCHANGED <<bi, final_doc, enviados>>
    /\ VisionFrame

VisionNext ==
    \/ Lote
    \/ Retornar

VisionSpec == VisionInit /\ [][VisionNext]_vars

----------------------------------------------------------------------------
(* Properties of the parser, checked under ParserSpec *)

Parsed == doc # NoDoc

\* The number of comma-separated parts of an answer
RECURSIVE Comas(_)
Comas(s) == IF s = <<>> THEN 0 ELSE (IF Head(s) = "," THEN 1 ELSE 0) + Comas(Tail(s))

NumPartes(s) == Comas(s) + 1

\* The i-th part of the answer as written, trimmed
CampoCrudo(s, i) == strip(split(s, ",")[i])

\* The i-th field of a record is absent (for the flag: false)
CampoAusente(d, i) ==
    CASE i = 1 -> d.moneda = None
      [] i = 2 -> d.ruc = None
      [] i = 3 -> d.proveedor = None
      [] i = 4 -> d.codigo_factura = None
      [] i = 5 -> d.fecha_emision = None
      [] i = 6 -> d.forma_pago = None
      [] i = 7 -> d.igv = FALSE
      [] i = 8 -> d.sub_total = None
      [] i = 9 -> d.total = None

EsRegistro(d) == DOMAIN d = DOMAIN DocumentoVacio

\* The total of an answer is missing (no ninth part, or a blank one) or the
\* null token
TotalAusente(s) ==
    \/ NumPartes(s) < N_CAMPOS
    \/ CampoCrudo(s, N_CAMPOS) = <<>>
    \/ lower(CampoCrudo(s, N_CAMPOS)) = NULL_TOKEN

\* The total of an answer is present: written, not empty, not the null token
TotalPresente(s) ==
    /\ NumPartes(s) >= N_CAMPOS
    /\ CampoCrudo(s, N_CAMPOS) # <<>>
    /\ lower(CampoCrudo(s, N_CAMPOS)) # NULL_TOKEN

\* C7, as claimed: the parser always returns a record; for an answer with
\* n < 9 parts every field at positions n+1..9 is absent (the flag false);
\* an input on which parsing throws gives the all-null record.
C7_Original ==
    Parsed =>
        /\ EsRegistro(doc)
        /\ ~IsStr(raw) => doc = DocumentoVacio
        /\ IsStr(raw) /\ NumPartes(raw) < N_CAMPOS =>
              \A i \in (NumPartes(raw) + 1)..N_CAMPOS : CampoAusente(doc, i)

\* C7, amended: as C7_Original, except that the total (position 9) of an
\* answer with exactly 8 parts is the subtotal when the flag is false and the
\* subtotal is present (the backfill rule acts on the padded total too).
C7_ParserTotality ==
    Parsed =>
        /\ EsRegistro(doc)
        /\ ~IsStr(raw) => doc = DocumentoVacio
        /\ IsStr(raw) /\ NumPartes(raw) < N_CAMPOS =>
              /\ \A i \in (NumPartes(raw) + 1)..(N_CAMPOS - 1) : CampoAusente(doc, i)
              /\ IF NumPartes(raw) = N_CAMPOS - 1 /\ ~doc.igv /\ Truthy(doc.sub_total)
                 THEN doc.total = doc.sub_total
                 ELSE doc.total = None

\* An answer of 8 parts whose total was backfilled
C7_Witness ==
    /\ Parsed
    /\ IsStr(raw)
    /\ NumPartes(raw) = N_CAMPOS - 1
    /\ doc.total # None
    /\ doc.moneda # None

\* C8: whenever the second part of the answer, trimmed, is the operator's own
\* tax id, the record's ruc is absent; no record has ruc equal to that id.
C8_OwnRucExcluded ==
    Parsed =>
        /\ doc.ruc # RUC_NETTALCO
        /\ IsStr(raw) /\ NumPartes(raw) >= 2 /\ CampoCrudo(raw, 2) = RUC_NETTALCO =>
              doc.ruc = None

\* An answer of nine parts with the own tax id written with blanks around it
C8_Witness ==
    /\ Parsed
    /\ IsStr(raw)
    /\ NumPartes(raw) = N_CAMPOS
    /\ CampoCrudo(raw, 2) = RUC_NETTALCO
    /\ split(raw, ",")[2] # RUC_NETTALCO
    /\ doc.ruc = None
    /\ doc.proveedor = PROVEEDOR

\* C9: with the flag false, the subtotal present (not blank) and the total the
\* null token or missing (no ninth part, or a blank one), the record's total is
\* the subtotal exactly as written (trimmed); a present total is returned as
\* written; with the flag true a total that is the null token or missing stays
\* absent (None, or blank as written).
C9_TotalBackfill ==
    Parsed /\ IsStr(raw) =>
        /\ ~doc.igv /\ Truthy(doc.sub_total) /\ TotalAusente(raw) =>
              doc.total = doc.sub_total /\ doc.total = CampoCrudo(raw, N_CAMPOS - 1)
        /\ TotalPresente(raw) => doc.total = CampoCrudo(raw, N_CAMPOS)
        /\ doc.igv /\ TotalAusente(raw) => ~Truthy(doc.total)

\* An answer of nine parts with the flag false and the null token as total
C9_Witness ==
    /\ Parsed
    /\ IsStr(raw)
    /\ NumPartes(raw) = N_CAMPOS
    /\ lower(CampoCrudo(raw, N_CAMPOS)) = NULL_TOKEN
    /\ ~doc.igv
    /\ doc.total = CampoCrudo(raw, N_CAMPOS - 1)
    /\ Truthy(doc.total)

\* C10: the record's igv is true exactly when the answer has a seventh part
\* that, trimmed and lower-cased, is one of true, yes, si, s, 1, verdadero.
C10_IgvCoercion ==
    Parsed /\ IsStr(raw) =>
        doc.igv = (/\ NumPartes(raw) >= 7
                   /\ lower(CampoCrudo(raw, 7)) \in IGV_TRUE_TOKENS)

\* An answer whose seventh part is a truthy token in upper case, with blanks
C10_Witness ==
    /\ Parsed
    /\ IsStr(raw)
    /\ NumPartes(raw) >= 7
    /\ doc.igv
    /\ CampoCrudo(raw, 7) \notin IGV_TRUE_TOKENS
    /\ split(raw, ",")[7] # CampoCrudo(raw, 7)

\* The i-th part of a nine-part answer as the record should carry it: trimmed,
\* absent when it is the null token in any letter case
CampoDecodificado(s, i) ==
    IF lower(CampoCrudo(s, i)) = NULL_TOKEN THEN None ELSE CampoCrudo(s, i)

\* C11: for an answer with exactly nine parts, currency, tax id, name,
\* document code, issue date, payment terms and subtotal are the trimmed parts
\* 1,2,3,4,5,6,8 with the null token (any letter case) absent; the tax id is
\* also absent when it is the own tax id; the total is the trimmed part 9 with
\* the null token absent, or the subtotal when the backfill rule applies.
C11_PositionalDecoding ==
    Parsed /\ IsStr(raw) /\ NumPartes(raw) = N_CAMPOS =>
        /\ doc.moneda = CampoDecodificado(raw, 1)
        /\ doc.ruc = IF CampoCrudo(raw, 2) = RUC_NETTALCO
                      THEN None ELSE CampoDecodificado(raw, 2)
        /\ doc.proveedor = CampoDecodificado(raw, 3)
        /\ doc.codigo_factura = CampoDecodificado(raw, 4)
        /\ doc.fecha_emision = CampoDecodificado(raw, 5)
        /\ doc.forma_pago = CampoDecodificado(raw, 6)
        /\ doc.sub_total = CampoDecodificado(raw, 8)
        /\ doc.total = IF /\ ~doc.igv
                           /\ Truthy(CampoDecodificado(raw, 8))
                           /\ ~Truthy(CampoDecodificado(raw, 9))
                        THEN CampoDecodificado(raw, 8)
                        ELSE CampoDecodificado(raw, 9)

\* A nine-part answer with the null token in upper or mixed case at the tax
\* id and the document code, a written total and every other field decoded
C11_Witness ==
    /\ Parsed
    /\ IsStr(raw)
    /\ NumPartes(raw) = N_CAMPOS
    /\ CampoCrudo(raw, 2) # NULL_TOKEN /\ lower(CampoCrudo(raw, 2)) = NULL_TOKEN
    /\ CampoCrudo(raw, 4) # NULL_TOKEN /\ lower(CampoCrudo(raw, 4)) = NULL_TOKEN
    /\ doc.ruc = None
    /\ doc.codigo_factura = None
    /\ doc.proveedor = PROVEEDOR
    /\ doc.fecha_emision = FECHA
    /\ TotalPresente(raw)
    /\ doc.total = CampoCrudo(raw, N_CAMPOS)
    /\ doc.total # doc.sub_total

\* The answer cut after its ninth part
PrimerasNueve(s) == Unir(SubSeq(split(s, ","), 1, N_CAMPOS))

\* The values a field may take when the answer wrote one of vs in its place
Leidos(vs) == {NullANone(strip(v)) : v \in vs}

\* C31: for an answer with more than nine parts the parser returns the record
\* of the answer cut after its ninth part, which is a record read from the
\* answer and not the all-null record of a failure; when the supplier's name
\* holds a comma, the name's second half is read as the document code and
\* every later field holds the value written for the field before it, the
\* written total being read by no field.
C31_SurplusFields ==
    (Parsed /\ IsStr(raw) /\ NumPartes(raw) > N_CAMPOS) =>
        /\ EsRegistro(doc)
        /\ doc = parsear_respuesta_csv(PrimerasNueve(raw))
        /\ doc.proveedor = CampoCrudo(raw, 3)
        /\ doc.proveedor # None
        /\ raw \in ConComa =>
            /\ doc.proveedor = <<"X">>
            /\ doc.codigo_factura = <<"S",".","A",".">>
            /\ doc.fecha_emision \in Leidos(CODIGOS)
            /\ doc.fecha_emision = NullANone(CampoCrudo(raw, 5))
            /\ doc.forma_pago = FECHA
            /\ doc.igv = FALSE
            /\ doc.sub_total \in Leidos(IGVS)
            /\ doc.sub_total = NullANone(CampoCrudo(raw, 8))
            /\ doc.total \in Leidos(SUB_TOTALES) \cup Leidos(IGVS)
            /\ doc.total =
                 CompletarTotal(FALSE, doc.sub_total, NullANone(CampoCrudo(raw, 9)))

\* An answer whose supplier name holds a comma was parsed: the document code
\* is the name's second half and the written total, 141.60, is in no field
C31_Witness ==
    /\ Parsed
    /\ raw \in ConComa
    /\ NumPartes(raw) = N_CAMPOS + 1
    /\ CampoCrudo(raw, N_CAMPOS + 1) = <<"1","4","1",".","6","0">>
    /\ doc.codigo_factura = <<"S",".","A",".">>
    /\ doc.sub_total = <<"T","r","u","e">>
    /\ doc.total = <<"1","2","0",".","0","0">>

----------------------------------------------------------------------------
(* Properties of chat_file_endpoint, checked under ChatFileSpec *)

\* C32, as claimed: a /chat/file request that wrote the upload to its
\* temporary file has the file in place while procesar_consulta runs, and when
\* the endpoint has answered, with the result (200) or with the terminal error
\* (500), the file is removed, whichever session object was installed while
\* the upload was read; a file is removed only after procesar_consulta was
\* called, once.
C32_TempFileCleanup ==
    /\ fpc = "procesar" => temporal = "existe" /\ subida.lectura = "ok"
    /\ (fpc = "respondido" /\ procesados # <<>>) =>
          /\ temporal = "borrado"
          /\ subida.lectura = "ok"
          /\ respuesta.status = IF subida.proceso = "retorna" THEN 200 ELSE 500
    /\ temporal = "borrado" => (fpc = "respondido" /\ procesados = <<claude_session>>)

\* The upload has a file name that does not end in .pdf, whatever the case
NoEsPdf ==
    /\ IsStr(subida.filename)
    /\ ~endswith(lower(subida.filename), PDF_SUFFIX)

\* C33, as claimed: a /chat/file request with a session installed whose file
\* name does not end in .pdf is answered 400, with no temporary file created
\* and procesar_consulta not called.
C33_NonPdfRejection ==
    (fpc = "respondido" /\ subida.sesion /\ NoEsPdf) =>
        /\ respuesta.status = 400
        /\ temporal = "ninguno"
        /\ procesados = <<>>

----------------------------------------------------------------------------
(* Properties of groq_vision_extract, checked under VisionSpec *)

\* The lists of a list, one after the other
RECURSIVE Aplanar(_)
Aplanar(ls) == IF ls = <<>> THEN <<>> ELSE Head(ls) \o Aplanar(Tail(ls))

\* The rows written in the answers, in the order of the requests
FilasContestadas == Aplanar([k \in DOMAIN respuestas |-> Filas_De(respuestas[k])])

\* The header the first answer wrote, every field None when there is no first
\* answer or it holds no header object
PrimerDocumento ==
    IF /\ Len(respuestas) >= 1
       /\ respuestas[1].tipo = "dict"
       /\ respuestas[1].documento.hay = "dict"
    THEN respuestas[1].documento.campos
    ELSE DocInicial

\* C34: every request carries between one and five images, and the requests
\* sent so far carry, put one after the other, the first pages of the
\* document in page order, each page once. When groq_vision_extract has
\* returned, all the pages were sent, every header field is what the first
\* answer wrote for it (None where it wrote null or nothing) whatever the
\* later answers wrote, and the rows are the rows of all the answers in the
\* order of the requests, as many as were written, each one as
\* the overflow step leaves it.
C34_VisionBatching ==
    /\ \A k \in DOMAIN enviados :
          Len(enviados[k]) >= 1 /\ Len(enviados[k]) <= MAX_IMAGES_PER_REQUEST
    /\ \A k \in 1..(Len(enviados) - 1) : Len(enviados[k]) = MAX_IMAGES_PER_REQUEST
    /\ Aplanar(enviados) = SubSeq(images, 1, Len(Aplanar(enviados)))
    /\ extraccion.estado = "returned" =>
          /\ Aplanar(enviados) = images
          /\ \A k \in DOMAIN DocInicial : extraccion.documento[k] = PrimerDocumento[k]
          /\ Len(extraccion.items) = Len(FilasContestadas)
          /\ \A i \in DOMAIN FilasContestadas :
                extraccion.items[i] = MoverFila(FilasContestadas[i])

\* Eleven pages went out as 5, 5 and 1; the first answer wrote a header with
\* nulls and the second one a full header; the header returned is the first
\* one's, and the two equal rows of the second answer are both in the result
C34_Witness ==
    /\ extraccion.estado = "returned"
    /\ Len(images) = 11
    /\ Len(enviados) = 3
    /\ enviados[3] = <<11>>
    /\ respuestas[1].documento = Documento(DocParcial)
    /\ respuestas[2].documento = Documento(DocCompleto)
    /\ extraccion.documento = DocParcial
    /\ extraccion.documento.empresa = None
    /\ Len(extraccion.items) >= 4
    /\ extraccion.items[3] = FilaUno
    /\ extraccion.items[4] = FilaUno

----------------------------------------------------------------------------
(* Properties of _move_nombre_overflow_to_adicional, checked under          *)
(* OverflowSpec                                                              *)

\* The rows whose nombre was a str longer than the limit when the call was made
FilasLargas ==
    {i \in DOMAIN items_antes :
        /\ isinstance_str(items_antes[i][IDX_NOMBRE])
        /\ Len(items_antes[i][IDX_NOMBRE]) > NAME_LIMIT}

\* A cell as text: the empty text for a cell that holds no str
TextoDe(v) == IF isinstance_str(v) THEN v ELSE <<>>

\* The cell of a row, None where the row stops before it
CeldaDe(row, idx) == IF idx <= Len(row) THEN row[idx] ELSE None

\* A text without its blanks
SinBlancos(s) == SelectSeq(s, LAMBDA ch : ch \notin Whitespace)

EsPrefijo(p, s) == Len(p) <= Len(s) /\ SubSeq(s, 1, Len(p)) = p

\* t occurs in s
Contiene(s, t) ==
    \E k \in 0..(Len(s) - Len(t)) : SubSeq(s, k + 1, k + Len(t)) = t

\* The text nombre had beyond its limit
Sobrante(i) == strip(Desde(items_antes[i][IDX_NOMBRE], NAME_LIMIT))

\* What adicional1 of row i holds after the call beyond the text it had
\* before, when that text is still its leading part
AgregadoAd1(i) ==
    LET antes == strip(TextoDe(CeldaDe(items_antes[i], IDX_AD1)))
        ahora == TextoDe(items[i][IDX_AD1])
    IN  IF EsPrefijo(antes, ahora) THEN Desde(ahora, Len(antes)) ELSE <<>>

\* After the call nombre, adicional1 and adicional2 of row i are within
\* their limits
DentroDeLimites(i) ==
    /\ Len(TextoDe(items[i][IDX_NOMBRE])) <= NAME_LIMIT
    /\ Len(TextoDe(items[i][IDX_AD1])) <= ADICIONAL1_LIMIT
    /\ Len(TextoDe(items[i][IDX_AD2])) <= ADICIONAL2_LIMIT

\* C35, as claimed: after the call, for every row whose nombre was a str
\* longer than 60 characters, nombre, adicional1 and adicional2 have at most
\* 60 characters each, and the text nombre had beyond its limit is laid out
\* first in adicional1 and its remainder in adicional2: what adicional1
\* gained followed by adicional2 is, blanks aside, the start of that text,
\* and adicional2 takes text only when adicional1 is full or holds none of
\* it for lack of room.
C35_OverflowLimits ==
    movido =>
        \A i \in FilasLargas :
            /\ DentroDeLimites(i)
            /\ items[i][IDX_NOMBRE] = strip(Hasta(items_antes[i][IDX_NOMBRE], NAME_LIMIT))
            /\ EsPrefijo(SinBlancos(AgregadoAd1(i) \o TextoDe(items[i][IDX_AD2])),
                         SinBlancos(Sobrante(i)))

\* C36, as claimed: after the call, for every row whose nombre was a str
\* longer than 60 characters, the text adicional1 had before is the leading
\* part of adicional1, and the text adicional2 had before is still in
\* adicional2.
C36_ExistingExtrasPreserved ==
    movido =>
        \A i \in FilasLargas :
            /\ EsPrefijo(strip(TextoDe(CeldaDe(items_antes[i], IDX_AD1))),
                         TextoDe(items[i][IDX_AD1]))
            /\ Contiene(TextoDe(items[i][IDX_AD2]),
                        strip(TextoDe(CeldaDe(items_antes[i], IDX_AD2))))

----------------------------------------------------------------------------
(* Properties of procesar_consulta, checked under Spec *)

\* The caller is inside `with self.request_lock`: between the start of its
\* first attempt and the end of the block, which its return or its raise leaves
InFlight(c) ==
    pc[c] \in {"loop", "upload", "create", "send", "parse", "exito", "except", "backoff",
               "returned", "raised"}

\* The current attempt of the caller is over
AttemptOver(c) == pc[c] \in {"backoff", "returned", "raised"}

\* C1, as claimed: once an attempt that obtained a conversation id is over,
\* by success or by failure, exactly one DELETE request was issued for that id.
C1_CleanupInvariant ==
    \A c \in Callers :
        /\ deletes[c] <= 1
        /\ AttemptOver(c) /\ conv_attempt[c] # SinId => deletes[c] = 1

\* C2: with a transport that fails every upload the call never returns, issues
\* at most 5 uploads and takes at most 4 backoffs, one between two consecutive
\* uploads; when it raises, exactly 5 uploads and 4 backoffs have happened.
C2_RetryBound ==
    \A c \in Callers :
        transport = "upload_fails" =>
            /\ pc[c] # "returned"
            /\ resultado[c].estado # "retorno"
            /\ uploads[c] <= 5
            /\ backoffs[c] <= 4
            /\ pc[c] = "upload" => backoffs[c] = uploads[c]
            /\ pc[c] \in {"except", "backoff"} => backoffs[c] = uploads[c] - 1
            /\ pc[c] = "loop" => backoffs[c] = uploads[c]
            /\ pc[c] = "raised" =>
                  uploads[c] = 5 /\ backoffs[c] = 4 /\ fallidos[c] = 5

\* A call that raised after five failed uploads
C2_Witness ==
    \E c \in Callers :
        /\ transport = "upload_fails"
        /\ pc[c] = "raised"
        /\ uploads[c] = 5
        /\ backoffs[c] = 4
        /\ resultado[c].ultimo_error = "Error subiendo archivo"

\* C3: at most one caller is in flight at any time, and only under the lock.
C3_MutualExclusion ==
    /\ \A c1, c2 \in Callers : InFlight(c1) /\ InFlight(c2) => c1 = c2
    /\ \A c \in Callers : InFlight(c) => request_lock

\* One caller streams a completion while another waits at the lock
C3_Witness ==
    \E c1, c2 \in Callers :
        /\ c1 # c2
        /\ pc[c1] = "send"
        /\ pc[c2] = "waiting"
        /\ request_lock

\* C4, as claimed: with the organization handle unset no processing call
\* issues a network request: no upload, and no later step of an attempt.
C4_FailFast ==
    organization_id = "None" =>
        \A c \in Callers :
            /\ uploads[c] = 0
            /\ pc[c] \notin {"create", "send", "parse", "exito"}

\* C5: a call that returned gives the record parsed from the response text of
\* its last attempt, which is a non-empty text; the attempt index returned is
\* in 1..5 and is the number of attempts and of uploads started; all earlier
\* attempts failed.
C5_SuccessResult ==
    \A c \in Callers :
        pc[c] = "returned" =>
            /\ resultado[c].estado = "retorno"
            /\ Truthy(respuesta_raw[c])
            /\ respuesta_raw[c] \in DOMAIN RegistroDe
            /\ resultado[c].documento = RegistroDe[respuesta_raw[c]]
            /\ resultado[c].intentos \in 1..5
            /\ resultado[c].intentos = intento[c]
            /\ uploads[c] = resultado[c].intentos
            /\ fallidos[c] = resultado[c].intentos - 1

\* A call that returned at its third attempt, after two failures
C5_Witness ==
    \E c \in Callers :
        /\ pc[c] = "returned"
        /\ resultado[c].intentos = 3
        /\ fallidos[c] = 2
        /\ resultado[c].documento.moneda = <<"P","E","N">>

\* C6: a terminal error exists only for a call that raised, which happens only
\* when five attempts have failed, and it carries the failure of the fifth
\* attempt; while fewer than five attempts have failed nothing is raised.
C6_ErrorPropagation ==
    \A c \in Callers :
        /\ resultado[c].estado = "error" <=> pc[c] = "raised" \/ (pc[c] = "fin" /\ fallidos[c] = 5)
        /\ pc[c] = "raised" =>
              /\ intento[c] = 5
              /\ fallidos[c] = 5
              /\ resultado[c].ultimo_error = e[c]
              /\ e[c] # "None"
        /\ fallidos[c] < 5 => pc[c] # "raised" /\ resultado[c].estado # "error"

\* A call that raised with the failure of a fifth attempt that had uploaded
C6_Witness ==
    \E c \in Callers :
        /\ pc[c] = "raised"
        /\ fallidos[c] = 5
        /\ resultado[c].ultimo_error = "Sin respuesta valida"
        /\ transport = "any"


\* The attempt under way has issued its completion request
CompletionEnviada(c) == creada[c] /\ pc[c] # "send"

\* C18: every attempt started performs its own upload, so the uploads of a
\* call are as many as its attempts started; the handle an attempt holds, and
\* the handle its completion request refers to, is the one returned by the
\* upload of that same attempt, never that of an earlier attempt.
C18_FreshUpload ==
    \A c \in Callers :
        /\ pc[c] # "fin" => uploads[c] = IF pc[c] = "upload" THEN intento[c] - 1 ELSE intento[c]
        /\ pc[c] = "fin" => uploads[c] = resultado[c].intentos
        /\ file_uuid[c] # SinFile => file_uuid[c] = FileId(c, intento[c])
        /\ CompletionEnviada(c) => files_enviados[c] # SinFile
        /\ files_enviados[c] # SinFile =>
              /\ files_enviados[c] = file_uuid[c]
              /\ files_enviados[c] = FileId(c, intento[c])
              /\ \A k \in 1..(intento[c] - 1) : files_enviados[c] # FileId(c, k)

\* A call that returned at its third attempt, the second having uploaded its
\* file too: the completion referred to the third upload's handle
C18_Witness ==
    \E c \in Callers :
        /\ pc[c] = "returned"
        /\ intento[c] = 3
        /\ uploads[c] = 3
        /\ ultimo_error[c] = "Sin respuesta valida"
        /\ files_enviados[c] = FileId(c, 3)

\* C20: eliminar_conversacion hands back a boolean whatever the DELETE does,
\* and procesar_consulta drops it: when the delete after a successful attempt
\* failed, the call has returned the record parsed in that attempt with that
\* attempt's index, no attempt was counted as failed for it and none followed;
\* an attempt whose answer was parsed ends in the return.
C20_BestEffortDelete ==
    /\ \A c \in Callers : documento[c] # NoDoc => pc[c] \in {"exito", "returned"}
    /\ borrado # NoBorrado =>
          LET c == borrado.caller IN
            /\ borrado.ok \in BOOLEAN
            /\ pc[c] = "returned"
            /\ deletes[c] = 1
            /\ resultado[c] = Retorno(RegistroDe[respuesta_raw[c]], intento[c])
            /\ uploads[c] = intento[c]
            /\ fallidos[c] = intento[c] - 1

\* A call that returned at its second attempt although the delete failed
C20_Witness ==
    /\ borrado # NoBorrado
    /\ ~borrado.ok
    /\ pc[borrado.caller] = "returned"
    /\ resultado[borrado.caller].intentos = 2
    /\ resultado[borrado.caller].documento.moneda = <<"P","E","N">>
    /\ deletes[borrado.caller] = 1

\* C26: within an attempt the requests go upload, create, send, parse: a create
\* request is issued only after that attempt's upload returned a handle, the
\* completion is sent only after that attempt's create was answered 201, the
\* parser is called only on a non-empty response text, and a failed upload
\* ends the attempt with no create, send or delete request
C26_StepOrder ==
    [][\A c \in Callers :
         /\ (pc'[c] # pc[c] /\ pc'[c] = "create")
               => pc[c] = "upload" /\ file_uuid'[c] # SinFile
         /\ (pc'[c] # pc[c] /\ pc'[c] = "send")
               => pc[c] = "create" /\ file_uuid[c] # SinFile /\ creada'[c]
         /\ (creada'[c] /\ ~creada[c]) => pc[c] = "create"
         /\ (pc'[c] # pc[c] /\ pc'[c] = "parse")
               => pc[c] = "send" /\ creada[c] /\ Truthy(respuesta_raw'[c])
         /\ (documento'[c] # documento[c] /\ documento'[c] # NoDoc)
               => pc[c] = "parse" /\ Truthy(respuesta_raw[c])
         /\ (pc'[c] # pc[c] /\ pc[c] = "upload" /\ file_uuid'[c] = SinFile)
               => pc'[c] = "except"
         /\ (pc'[c] \in {"except", "backoff", "raised"} /\ e'[c] = "Error subiendo archivo")
               => /\ conv_attempt'[c] = SinId
                  /\ ~creada'[c]
                  /\ files_enviados'[c] = SinFile
                  /\ deletes'[c] = 0
    ]_vars

\* An attempt that went through the four steps after an attempt whose upload
\* failed
C26_Witness ==
    \E c \in Callers :
        /\ pc[c] = "exito"
        /\ intento[c] > 1
        /\ ultimo_error[c] = "Error subiendo archivo"
        /\ file_uuid[c] # SinFile
        /\ conv_attempt[c] # SinId

\* The attempt's completion came back with no usable text: nothing was
\* accumulated, or only whitespace
SinTexto(c) ==
    CompletionEnviada(c) /\ (respuesta_raw[c] = None \/ strip(respuesta_raw[c]) = <<>>)

\* C28: an attempt whose accumulated response text is empty or whitespace-only
\* is a failed attempt: the parser is not called on it, nothing is returned as
\* a success, and the call goes on to the next attempt or, on the fifth, to the
\* terminal error
C28_EmptyAnswer ==
    \A c \in Callers :
        /\ documento[c] # NoDoc
              => IsStr(respuesta_raw[c]) /\ strip(respuesta_raw[c]) # <<>>
        /\ SinTexto(c)
              => /\ pc[c] \in {"except", "backoff", "loop", "raised"}
                 /\ e[c] = "Sin respuesta valida"
                 /\ documento[c] = NoDoc
                 /\ resultado[c] \in {Pendiente, ErrorTerminal("Sin respuesta valida")}
                 /\ pc[c] \in {"backoff", "loop"}
                       => intento[c] < MAX_INTENTOS /\ fallidos[c] = intento[c]
                 /\ pc[c] = "raised"
                       => /\ intento[c] = MAX_INTENTOS
                          /\ resultado[c] = ErrorTerminal("Sin respuesta valida")

\* A whitespace-only text was accumulated in the fifth attempt of a call, which
\* raises, after another call had raised for want of a valid answer
C28_Witness ==
    \E c, d \in Callers :
        /\ pc[c] = "raised"
        /\ conv_attempt[c] # SinId
        /\ respuesta_raw[c] = <<>>
        /\ pc[d] = "fin"
        /\ resultado[d] = ErrorTerminal("Sin respuesta valida")

\* C25, as claimed: every caller blocked on the lock eventually enters its own
\* attempts, and every call that has entered eventually returns a result or
\* raises the terminal error, after at most MAX_INTENTOS attempts; on both
\* exits the lock is released
C25_Termination ==
    /\ \A c \in Callers : (pc[c] = "waiting") ~> (pc[c] = "loop")
    /\ \A c \in Callers : InFlight(c) ~> (pc[c] = "fin")
    /\ [](\A c \in Callers :
            /\ intento[c] <= MAX_INTENTOS
            /\ pc[c] = "raised" => intento[c] = MAX_INTENTOS
            /\ pc[c] = "fin" => resultado[c].estado \in {"retorno", "error"}
            /\ (request_lock /\ pc[c] = "fin") => \E d \in Callers : InFlight(d))

----------------------------------------------------------------------------
(* Properties of request_lock, checked under LockSpec *)

\* C19: the calls are processed in the order in which they arrived at the
\* lock: a thread enters the with block only when no thread is blocked at the
\* lock, or when it is the one blocked there the longest.
C19_ArrivalOrder ==
    [][\A h \in Hilos :
          pc[h] # "loop" /\ pc'[h] = "loop" => cola = <<>> \/ Head(cola) = h]_vars

----------------------------------------------------------------------------
(* Properties of crear_conversacion_y_enviar_mensaje, checked under         *)
(* LifecycleSpec                                                             *)

Retornado == cpc = "retornado"

\* The lines read so far
Leidas == SubSeq(guion.lineas, 1, pos)

EsDelta(l) == l.clase = "text_delta"

EsStop(l) == l.clase = "message_stop"

\* The lines before the first message_stop (all of them when there is none)
AntesDelStop(ls) ==
    IF \E i \in DOMAIN ls : EsStop(ls[i])
    THEN SubSeq(ls, 1, (CHOOSE i \in DOMAIN ls :
                           EsStop(ls[i]) /\ \A j \in 1..(i - 1) : ~EsStop(ls[j])) - 1)
    ELSE ls

\* The fragments of the text_delta events of some lines, in their order
Fragmentos(ls) ==
    LET ds == SelectSeq(ls, EsDelta) IN [i \in DOMAIN ds |-> ds[i].text]

RECURSIVE Concatenar(_)
Concatenar(ss) == IF ss = <<>> THEN <<>> ELSE Head(ss) \o Concatenar(Tail(ss))

\* The call left through the code after the loop (message_stop or end of stream)
FinNormal == Retornado /\ salida \in {"stop", "eof"}

\* C13: while the stream is read the accumulated text is the concatenation, in
\* arrival order, of the fragments of the text_delta events read; when the loop
\* is left by message_stop or by the end of the stream the text returned is the
\* concatenation of the fragments that arrived before the first message_stop,
\* trimmed (None when that concatenation is empty); later fragments are out.
C13_StreamAccumulation ==
    /\ cpc = "leyendo" => texto_completo = Concatenar(Fragmentos(Leidas))
    /\ FinNormal =>
          LET esperado == Concatenar(Fragmentos(AntesDelStop(guion.lineas)))
          IN  /\ texto_completo = esperado
              /\ retorno.texto = IF esperado = <<>> THEN None ELSE strip(esperado)

\* Two different fragments, then message_stop, then one more fragment: the
\* text returned is the first two in their order
C13_Witness ==
    /\ FinNormal
    /\ Len(guion.lineas) = 4
    /\ EsDelta(guion.lineas[1]) /\ EsDelta(guion.lineas[2])
    /\ guion.lineas[1].text # guion.lineas[2].text
    /\ EsStop(guion.lineas[3])
    /\ EsDelta(guion.lineas[4])
    /\ retorno.texto = strip(guion.lineas[1].text \o guion.lineas[2].text)
    /\ retorno.texto # strip(guion.lineas[2].text \o guion.lineas[1].text)

\* A line that is not a data event (blank, another field, bytes that are no
\* text), a payload that is not valid JSON, is no JSON object or is beyond
\* what json.loads takes, an event of another type
Ignorable(l) ==
    l.clase \in {"no_data", "no_utf8", "json_invalido", "json_desborda", "no_objeto",
                 "otro_tipo", "delta_otro"}

NoIgnorable(l) == ~Ignorable(l)

SinIgnorables(ls) == SelectSeq(ls, NoIgnorable)

\* C14, as claimed: a line that is not a data event, a payload that is not
\* valid JSON and an event of another type do not end the read loop and leave
\* the accumulated text as it was: while the stream is read, and when the call
\* has left the loop without the stream itself raising, the accumulated text
\* is the text the loop accumulates from the same lines with the ignorable
\* ones removed, and the loop is never left at an ignorable line.
C14_StreamTolerance ==
    /\ cpc = "leyendo" =>
          texto_completo = TextoAcumulado(<<>>, SinIgnorables(Leidas))
    /\ Retornado /\ salida \in {"stop", "eof", "excepcion"} =>
          texto_completo = TextoAcumulado(<<>>, SinIgnorables(guion.lineas))
    /\ Retornado /\ pos > 0 /\ Ignorable(guion.lineas[pos]) =>
          /\ pos = Len(guion.lineas)
          /\ salida \in Fines

\* The stream raised (read timeout, dropped connection) before any message_stop
FalloDeStream ==
    /\ Retornado
    /\ Status201(guion.crear)
    /\ guion.enviar = "200"
    /\ salida \in {"timeout", "drop"}

\* C15, as claimed: when the stream raises before message_stop the call
\* returns the conversation id with the text accumulated so far, None only
\* when nothing had been accumulated.
C15_Original ==
    FalloDeStream =>
        /\ retorno.conversation_id = CrearConversacion(1, 1, guion.crear)
        /\ (retorno.texto = None) = (texto_completo = <<>>)

\* C15, amended: when the stream raises before message_stop the call returns
\* the conversation id the create answered (None when its body held none) with
\* None, whatever text had been accumulated; the accumulated text (trimmed,
\* None when empty) is returned only when the stream ends without raising.
C15_StreamFailureResult ==
    /\ FalloDeStream =>
          /\ retorno = Devuelve(CrearConversacion(1, 1, guion.crear), None)
          /\ guion.crear = "201" => retorno.conversation_id = ConvId(1, 1)
    /\ Retornado /\ salida = "eof" =>
          retorno = Devuelve(CrearConversacion(1, 1, guion.crear),
                             IF texto_completo = <<>> THEN None ELSE strip(texto_completo))

\* A read timeout after two fragments: the accumulated text is dropped
C15_Witness ==
    /\ FalloDeStream
    /\ salida = "timeout"
    /\ Len(Fragmentos(guion.lineas)) = 2
    /\ strip(texto_completo) # <<>>
    /\ retorno.texto = None

\* C16: the call hands a text to its caller as a successful answer (a text
\* that is not None and not empty) only if a message_stop event was read; a
\* stream that ends without message_stop is not a successful answer.
C16_StateMachine ==
    Retornado /\ Truthy(retorno.texto) => salida = "stop"

\* C17: a create request answered with anything but 201 makes the call return
\* (None, None) without a completion request; after a 201 a completion request
\* answered with anything but 200 makes it return the id of the conversation
\* just created (the uuid of the create's body) with None, after exactly one
\* completion request.
C17_CreateSendFailure ==
    Retornado =>
        /\ ~Status201(guion.crear) =>
              retorno = Devuelve(SinId, None) /\ completions = 0
        /\ Status201(guion.crear) /\ guion.enviar # "200" =>
              /\ retorno = Devuelve(conversacion, None)
              /\ conversacion = CrearConversacion(1, 1, guion.crear)
              /\ guion.crear = "201" => conversacion = ConvId(1, 1)
              /\ completions = 1

\* The create answered 201 and the completion 500
C17_Witness ==
    /\ Retornado
    /\ guion.crear = "201"
    /\ guion.enviar = "500"
    /\ salida = "no200"
    /\ retorno.conversation_id = ConvId(1, 1)
    /\ retorno.texto = None
    /\ completions = 1

----------------------------------------------------------------------------
(* Properties of subir_archivo, obtener_organization_id and verificar_codigo, *)
(* checked under MetodoSpec                                                   *)

\* The call followed is of this method and has ended
Termino(metodo) == llamada.metodo = metodo /\ valor # NoValor

\* C23: subir_archivo returns the file handle of the response body when the
\* upload answers 200, and None for every other status and for every
\* exception (unreadable file, connection error, timeout, a body that is no
\* JSON); it never raises to its caller
C23_UploadNeverThrows ==
    Termino("subir_archivo") =>
        LET o == llamada.resp
            respondida == o.archivo = "legible" /\ o.red = "ok"
        IN  /\ valor.v # Propagada
            /\ (respondida /\ o.status = "200" /\ o.cuerpo = "handle")
                  => valor.v = FileId(1, 1)
            /\ (respondida /\ o.status = "200" /\ o.cuerpo # "handle")
                  => valor.v = SinFile
            /\ (respondida /\ o.status # "200") => valor.v = SinFile
            /\ ~respondida => valor.v = SinFile

\* An unreadable file, and None came back
C23_Witness ==
    /\ Termino("subir_archivo")
    /\ llamada.resp.archivo = "ilegible"
    /\ valor.v = SinFile

\* C24: obtener_organization_id gives the uuid of the first entry of the list
\* when the lookup answers 200 with at least one entry, and None when the
\* status is not 200, the list is empty or the request raises; it never raises
C24_OrganizationResolution ==
    Termino("obtener_organization_id") =>
        LET r == llamada.resp
            respondida == r.status \notin {"timeout", "conexion"}
        IN  /\ valor.v # OrgPropagada
            /\ (r.status = "200" /\ r.json /\ Len(r.orgs) >= 1) => valor.v = Head(r.orgs)
            /\ (respondida /\ r.status # "200") => valor.v = "None"
            /\ (r.status = "200" /\ r.json /\ r.orgs = <<>>) => valor.v = "None"
            /\ (r.status = "200" /\ ~r.json) => valor.v = "None"
            /\ ~respondida => valor.v = "None"

\* A list of two entries, and the first one's uuid came back
C24_Witness ==
    /\ Termino("obtener_organization_id")
    /\ llamada.resp.status = "200"
    /\ llamada.resp.json
    /\ llamada.resp.orgs = <<"org2", "org">>
    /\ valor.v = "org2"

\* Exactly six characters, each a decimal digit
SeisDigitos(code) == Len(code) = 6 /\ \A i \in 1..Len(code) : code[i] \in Decimales

\* The verify request was answered 200 with a JSON body whose success is true
VerificacionAceptada(resp) ==
    resp.red = "ok" /\ resp.status = "200" /\ resp.json /\ resp.success

\* C30, as claimed: verificar_codigo writes the cookie file only when the
\* verify request answers 200 with success true; a code that is not exactly
\* six digits is rejected before any request; on every failure (bad code, 429,
\* 401, another status, success false, a raising request) the file is left as
\* it was
C30_CookieWriteGuard ==
    Termino("verificar_codigo") =>
        LET aceptada == SeisDigitos(llamada.code) /\ VerificacionAceptada(llamada.resp) IN
            /\ cookie_file # llamada.previo => aceptada
            /\ aceptada => /\ cookie_file = CookiesLogin
                           /\ valor.v.success
                           /\ valor.v.peticiones = 1
            /\ ~aceptada => /\ cookie_file = llamada.previo
                            /\ ~valor.v.success
            /\ ~SeisDigitos(llamada.code) => /\ valor.v.peticiones = 0
                                             /\ ~valor.v.raised

----------------------------------------------------------------------------
(* Properties of the application, checked under AppSpec *)

\* The chat request is inside procesar_consulta
EnCurso(r) == chats[r].estado = "procesando"

\* C21, as claimed: the organization id and the credentials of a session
\* object (the cookies loaded and the cookie jar its requests send) are set at
\* construction and left as they are by every later step, procesar_consulta
\* included; a call in flight keeps the session object it started on, so the
\* values it sees do not change under it; and an organization is looked up
\* (a session object is built) only by lifespan, reload-session or a
\* successful verify-code
C21_SessionFrozen ==
    [][/\ \A i \in DOMAIN sesiones :
            /\ i \in DOMAIN sesiones'
            /\ sesiones'[i].organization_id = sesiones[i].organization_id
            /\ sesiones'[i].cookies = sesiones[i].cookies
            /\ sesiones'[i].jar = sesiones[i].jar
       /\ \A r \in Chats :
            (EnCurso(r) /\ EnCurso(r)') => chats'[r].self = chats[r].self
       /\ Len(sesiones') # Len(sesiones)
             => /\ Len(sesiones') = Len(sesiones) + 1
                /\ ultima'.op \in {"lifespan", "reload_session", "verify_code"}
                /\ ultima'.success
                /\ ultima' # ultima
                /\ claude_session' = Len(sesiones')
    ]_vars

\* C22: with the cookie file missing or malformed at startup the process
\* keeps running with no session, and every chat request made while there is
\* no session is turned down before it calls procesar_consulta on a session
\* object, which issues every upstream request of a chat request
C22_DegradedMode ==
    /\ proceso # "caido"
    /\ \A r \in Chats :
          /\ chats[r].estado = "rechazada" => chats[r].self = 0
          /\ chats[r].estado \notin {"idle", "rechazada", "admitida"} => chats[r].self # 0
    /\ (proceso = "sirviendo" /\ sesiones = <<>>) => claude_session = 0

\* C27: at most one processing sequence is in flight at any time, over all
\* the session objects built, and at most one lock is held; the session is
\* not replaced while a call is in flight, so a request that starts on the
\* replacement session starts on the session installed then, with no call
\* still running on a replaced one
C27_SerializationAcrossReloads ==
    [][/\ Cardinality({r \in Chats : EnCurso(r)}) <= 1
       /\ Cardinality({r \in Chats : EnCurso(r)'}) <= 1
       /\ Cardinality({i \in DOMAIN sesiones' : sesiones'[i].request_lock}) <= 1
       /\ \A r \in Chats :
            /\ (EnCurso(r) /\ EnCurso(r)')
                  => claude_session' = claude_session /\ Len(sesiones') = Len(sesiones)
            /\ (~EnCurso(r) /\ EnCurso(r)')
                  => /\ chats'[r].self = claude_session
                     /\ \A q \in Chats : ~EnCurso(q)
    ]_vars

\* A request runs on the replacement session, built from the same cookie
\* file as the replaced one, on which another request ran to its end before
C27_Witness ==
    \E r, q \in Chats :
        /\ EnCurso(r)
        /\ chats[r].self = claude_session
        /\ chats[q].estado = "hecha"
        /\ chats[q].self # chats[r].self
        /\ sesiones[chats[q].self].cookies = sesiones[chats[r].self].cookies
        /\ ~sesiones[chats[q].self].request_lock
        /\ sesiones[chats[r].self].request_lock

----------------------------------------------------------------------------
(* Properties of the login flow, checked under LoginSpec *)

\* C29, as claimed: a verify-code answers success only for an email with a
\* pending login session, which only a successful send-code for that email
\* puts there and only a verify-code for it removes; without one it fails with
\* no upstream request; a successful verify-code has removed the pending
\* session and installs a new session object; a failed one has removed
\* nothing and leaves login_sessions and claude_session as they were
C29_LoginProtocolOrder ==
    [][/\ \A m \in login_sessions' \ login_sessions :
            ultima' = Op("send_code", ultima.n + 1, m, TRUE, "200", 1)
       /\ \A m \in login_sessions \ login_sessions' :
            /\ verificando = NoVerificacion
            /\ verificando'.email = m
       /\ (ultima'.n # ultima.n /\ ultima'.op = "verify_code")
             => /\ ultima'.success
                   => /\ verificando.email = ultima'.email
                      /\ ultima'.email \notin login_sessions'
                      /\ sesiones' # sesiones
                      /\ claude_session' = Len(sesiones')
                      /\ claude_session' # claude_session
                      /\ sesiones'[claude_session'].cookies = cookie_file'
                /\ ~ultima'.success
                   => /\ verificando = NoVerificacion
                      /\ login_sessions' = login_sessions
                      /\ claude_session' = claude_session
                      /\ sesiones' = sesiones
                /\ (verificando = NoVerificacion /\ ultima'.email \notin login_sessions)
                   => /\ ~ultima'.success
                      /\ ultima'.peticiones = 0
                      /\ cookie_file' = cookie_file
    ]_vars

====
